---- MODULE Spec2Model ----
(***************************************************************************)
(* A model of the python-micro-services core: the Redis backed service    *)
(* registry (core/redis_service_registry.py), the bootstrap, the dispatch *)
(* loop and the shutdown of a service instance (core/service.py), the     *)
(* structured message handler (core/service_message_handler.py), the      *)
(* request state machine of the service client with its heartbeat thread  *)
(* (client.py) and the pool of clients of the method caller               *)
(* (core/service_method_caller.py, core/resourcepool/resourcepool.py).    *)
(***************************************************************************)
EXTENDS Integers, Sequences, FiniteSets, TLC

(***************************************************************************)
(* Bounds of the model.                                                    *)
(***************************************************************************)
MaxAllocs == 3          \* next_available_port calls explored by Spec
MaxDiscoverAllocs == 2  \* next_available_port calls explored by SpecDiscover
MaxPortAllocs == 103    \* next_available_port calls explored by SpecPorts
MaxSeqAllocs == 205     \* next_available_port calls explored by SpecAlloc
MaxTries == 4           \* largest max_tries argument given to request()
MaxNum == 2             \* largest num argument given to discover_service
MaxShutdowns == 2       \* shutdown() calls of the owner explored
MaxMessages == 3        \* messages a dispatch loop receives in SpecStats
MaxDeckMessages == 12   \* messages a dispatch loop receives in SpecDeck
MaxStopMessages == 2    \* messages a dispatch loop receives in SpecStop
MaxStopAllocs == 3      \* next_available_port calls explored by SpecStop
MaxPoolSize == 2        \* largest number of clients in the pool of SpecPool
MaxReleases == 3        \* releases of one Resource wrapper in SpecResource
MaxHoldAllocs == 102    \* next_available_port calls explored by SpecHold
MaxDescribeMessages == 3 \* messages a dispatch loop receives in SpecDescribe

(***************************************************************************)
(* Program constants.                                                      *)
(***************************************************************************)
STARTING_PORT == 9000
PORT_BATCH_SIZE == 100
HEARTBEAT_MAX_TRIES == 1
FUNCTIONS_DECK_LENGTH == 10
HEARTBEAT_TIMEOUT == 2000
DEFAULT_TIME_OUT == 5000
DEFAULT_HEARTBEAT_FREQUENCY == 30000

\* what utils.current_timestamp returns: a time after the epoch
current_timestamp == 1

\* the timeout a client is constructed with: the default, or -1 (blocking)
\* as ServiceClientResource passes
ClientTimeouts == {DEFAULT_TIME_OUT, -1}
RequestTimeouts == {100}
SleepsBeforeRetry == {0, 10}
RequestedFunctions == {"heartbeat", "greet"}

Guids == {"g1", "g2", "g3"}
PortGuids == {"g1", "g2"}
Names == {"a", "b"}
Hosts == {"h1", "h2"}
Pids == {4321}
StartTimes == {17}
Env == "dev"

MANDATORY_FIELDS ==
    {"name", "host", "port", "guid", "functions", "socket_type",
     "connect_method"}
VALID_CONN_METHOD == {"bind", "connect"}
VALID_SCK_TYPES == {"REQ", "REP", "PUB", "SUB", "PUSH", "PULL"}
ConfiguredSocketTypes ==
    {"REQ", "REP", "PUB", "SUB", "PUSH", "PULL", "ROUTER"}
DEFAULT_FUNCTION_MESSAGE_HANDLERS ==
    <<"heartbeat", "healthcheck", "description", "stop", "default">>

\* the class level MESSAGE_HANDLERS of the service class serving a name
MESSAGE_HANDLERS(name) ==
    IF name = "a" THEN <<"greet">> \o DEFAULT_FUNCTION_MESSAGE_HANDLERS
    ELSE DEFAULT_FUNCTION_MESSAGE_HANDLERS

None == "None"
EmptyHash == [f \in {} |-> None]

Range(s) == {s[i] : i \in DOMAIN s}

(***************************************************************************)
(* Encodings.  A value kept by Redis is a text; the model keeps with every *)
(* text the format that produced it, so that decoding a text that is not   *)
(* JSON is an error instead of the identity.                               *)
(***************************************************************************)
\* str(s) of a string, as hmset stores it
StrOfString(s) == [fmt |-> "raw", val |-> s]

\* str(n) of an integer, as hmset stores it: its decimal digits
StrOfInt(n) == [fmt |-> "dec", val |-> n]

\* json.dumps(x): the decimal digits of an integer, a JSON literal otherwise
JsonDumpsInt(n) == [fmt |-> "dec", val |-> n]
JsonDumps(x) == [fmt |-> "json", val |-> x]

\* json.loads(t) raises ValueError unless t is a JSON text
JsonLoadable(t) == t.fmt \in {"dec", "json"}
JsonLoads(t) == t.val

(***************************************************************************)
(* The directory: Redis sets, hashes and sorted sets.  A set or sorted set *)
(* key exists exactly when it has a member, a hash key when it has a       *)
(* field.  A sorted set is a set of (member, score) entries.               *)
(***************************************************************************)
ZCard(z) == Cardinality(z)

ZAdd(z, score, member) ==
    {e \in z : e.member # member} \cup {[member |-> member, score |-> score]}

\* zadd(key, p1, p1, p2, p2, ...): every port is added as score and member
ZAddAll(z, ports) ==
    {e \in z : e.member \notin ports}
        \cup {[member |-> p, score |-> p] : p \in ports}

\* zrange(key, -1, -1)[0]: the member of highest score
ZRangeFirst_Highest(z) ==
    (CHOOSE e \in z : \A f \in z :
        \/ e.score > f.score
        \/ e.score = f.score /\ e.member >= f.member).member

\* zrange(key, 0, 0)[0]: the member of lowest score, ties by member
ZRangeFirst(z) ==
    (CHOOSE e \in z : \A f \in z :
        \/ e.score < f.score
        \/ e.score = f.score /\ e.member <= f.member).member

ZRem(z, member) == {e \in z : e.member # member}

ZMembers(z) == {e.member : e \in z}

VARIABLES
    services,           \* se:s, the set of service names
    service_guids,      \* se:s:<name>:g, the guids of a service
    service_instance,   \* hm:s:<name>:g:<guid>, the mapping of an instance
    host_ports,         \* zs:h:<host>:p, the free ports of a host
    service,            \* the Service objects, one per guid
    nallocs,            \* number of next_available_port calls so far
    discover,           \* the discover_service call in progress
    released,           \* history: free ports that a deregistration returned
    allocated,          \* history: ports handed out and not returned since
    last_op,            \* history: the last mutation of the directory
    client,             \* the ServiceClient object
    heartbeat,          \* the ClientHeartbeat object and its thread
    request,            \* the ServiceClient.request call in progress
    shutdown,           \* the ServiceClient.shutdown call of the owner
    run,                \* Service.run of every instance: the dispatch loop
    handler,            \* the ServiceMessageHandler.handle call in progress
    pool,               \* the ResourcePool of a ServiceMethodCaller
    calls               \* the ServiceMethodCaller calls, one per thread

regVars ==
    <<services, service_guids, service_instance, host_ports, service,
      nallocs, discover, released, allocated, last_op>>

cliVars == <<client, heartbeat, request>>

\* the variables of the parts that are neither the registry nor the client
\* and its request
restVars == <<shutdown, run, handler, pool, calls>>

\* the same without the variables of one part
restButShutdown == <<run, handler, pool, calls>>
restButRun == <<shutdown, handler, pool, calls>>
restButHandler == <<shutdown, run, pool, calls>>
restButPool == <<shutdown, run, handler>>

vars == <<regVars, cliVars, restVars>>

Directory ==
    [services |-> services, service_guids |-> service_guids,
     service_instance |-> service_instance, host_ports |-> host_ports]

\* is_proto, request_class and response_class are those of the handler
\* of the service class as its initialize() left them, once it is built
NoService ==
    [pc |-> "init", name |-> None, host |-> None, pid |-> 0, port |-> 0,
     start_time |-> 0, socket_type |-> None, connect_method |-> None,
     functions |-> <<>>, handlers |-> {}, is_proto |-> FALSE,
     request_class |-> FALSE, response_class |-> FALSE]

NoDiscover ==
    [pc |-> "idle", name |-> None, num |-> 0, available_guids |-> {},
     sample_guids |-> {}, configs |-> EmptyHash, error |-> None]

\* a socket: self._socket is None when open is FALSE
NoSocket == [open |-> FALSE, rcvtimeo |-> 0, pending |-> FALSE]

NoClient ==
    [alive |-> FALSE, shutdown_time |-> 0, killed_by_error |-> None,
     socket |-> NoSocket, heartbeat_thread |-> FALSE, stop_event |-> FALSE,
     functions |-> {}]

NoHeartbeat ==
    [pc |-> "none", try_num |-> 0, sleep_duration |-> 0, error |-> None,
     socket |-> NoSocket]

NoRequest ==
    [pc |-> "idle", function_name |-> None, max_tries |-> 0,
     sleep_before_retry |-> 0, timeout |-> 0, response_class |-> FALSE,
     try_num |-> 0, sleep_duration |-> 0, error |-> None,
     alive_read |-> TRUE, alive_on_entry |-> TRUE, log |-> <<>>,
     result |-> None, raised |-> None]

NoOp ==
    [op |-> "none", guid |-> None, host |-> None, pre |-> None, port |-> 0,
     reused |-> FALSE]

InitRegistry ==
    /\ services = {}
    /\ service_guids = [n \in Names |-> {}]
    /\ service_instance = [n \in Names |-> [g \in Guids |-> EmptyHash]]
    /\ host_ports = [h \in Hosts |-> {}]
    /\ service = [g \in Guids |-> NoService]
    /\ nallocs = 0
    /\ discover = NoDiscover
    /\ released = [h \in Hosts |-> {}]
    /\ allocated = [h \in Hosts |-> {}]
    /\ last_op = NoOp

\* no shutdown() call of the owner is in progress; pre is the client as
\* the call in progress found it
NoShutdown ==
    [pc |-> "idle", calls |-> 0, raised |-> None, pre |-> NoClient]

\* a latency average: the model keeps the quotient the code computes in
\* floating point as an exact fraction num / den
Zero == [num |-> 0, den |-> 1]

\* the stats and the function deck as _set_config makes them, and run()
\* not yet called; received, samples and sent are the history of the loop,
\* and described the keys of the stats in each description reply
NoRun ==
    [pc |-> "off", function |-> None, response |-> None, exit |-> None,
     function_deque |-> <<>>,
     stats |-> [num_messages |-> 0, num_success |-> 0, num_error |-> 0,
                avg_response_time |-> Zero, min_response_time |-> 0,
                max_response_time |-> 0, last_response_time |-> 0],
     pid_file |-> FALSE, deregister_called |-> FALSE,
     remove_called |-> FALSE, raised |-> None,
     received |-> <<>>, outcomes |-> <<>>, samples |-> <<>>, sent |-> <<>>,
     described |-> <<>>]

\* a protobuf message as its serialization gives it: the text keeps the
\* message, and only a whole text parses
SerializeToString(message) == [fmt |-> "proto", val |-> message]
Truncated(text) == [fmt |-> "truncated", val |-> text.val]
Parseable(text) == text.fmt = "proto"
ParseFromString(text) == text.val

\* request_class() and response_class(): messages with every field at its
\* default
EmptyRequest == [header |-> [request_guid |-> "", client |-> ""]]
EmptyResponse ==
    [header |-> [request_guid |-> "", success |-> FALSE, error_type |-> "",
                 response_time |-> 0],
     body |-> ""]

\* no handle() call in progress; exception is the Exception that
\* decoding, validation or _handle raised, interrupted a KeyboardInterrupt
\* in _handle, propagated what leaves handle()
NoHandler ==
    [pc |-> "idle", message |-> SerializeToString(EmptyRequest),
     request |-> EmptyRequest, response |-> EmptyResponse,
     request_guid |-> None, exception |-> None, interrupted |-> FALSE,
     propagated |-> None, result |-> SerializeToString(EmptyResponse)]

\* the threads that call a ServiceMethodCaller and the clients of its pool
Threads == {"t1", "t2", "t3"}
Resources == {"c1", "c2", "c3"}

\* the pool before ServiceMethodCaller.__init__ fills it; dropped are the
\* resources that acquire took out and found not good to use
NoPool ==
    [resources |-> <<>>, alive |-> [r \in Resources |-> FALSE],
     dropped |-> {}]

\* a thread outside ServiceMethodCaller.__call__; resource is the client
\* that acquire took for the call and wrapper_pool the _pool attribute of
\* the Resource wrapper around it.  client_error is what client.request
\* raised, sent whether the request went out, waited whether acquire sat
\* out its timeout in Queue.get, releases the number of times the wrapper
\* was released and release_raised what a release raised.  direct tells
\* a thread that called pool.acquire itself from one inside __call__,
\* timeout whether acquire was given a timeout, and skipped counts the
\* resources this acquire found not good to use.
NoCall ==
    [pc |-> "idle", resource |-> None, wrapper_pool |-> FALSE,
     raised |-> None, client_error |-> None, sent |-> FALSE,
     waited |-> FALSE, releases |-> 0, release_raised |-> None,
     direct |-> FALSE, timeout |-> TRUE, skipped |-> 0]

InitRest ==
    /\ shutdown = NoShutdown
    /\ run = [g \in Guids |-> NoRun]
    /\ handler = NoHandler
    /\ pool = NoPool
    /\ calls = [t \in Threads |-> NoCall]

Init ==
    /\ InitRegistry
    /\ InitRest
    /\ client = NoClient
    /\ heartbeat = NoHeartbeat
    /\ request = NoRequest

(***************************************************************************)
(* RedisServiceRegistry.next_available_port                                *)
(*                                                                         *)
(* Every registry method runs its callable under redis.transaction(),      *)
(* which watches the keys, runs the reads, queues the writes after         *)
(* multi() and starts over when a watched key changed: one method call is  *)
(* one atomic step here.  The zadd of a fresh batch is issued before       *)
(* multi(); the attempt it is issued in is started over and the next one   *)
(* finds the batch in place, so the outcome is the one given here.         *)
(***************************************************************************)
\* a pool left with one port is not refilled
SeededPool_NoRefill(z) ==
    IF ZCard(z) = 0
    THEN ZAddAll(z, STARTING_PORT .. (STARTING_PORT + PORT_BATCH_SIZE - 1))
    ELSE z

\* the first batch does not start at STARTING_PORT
SeededPool_FromZero(z) ==
    IF ZCard(z) = 0
    THEN ZAddAll(z, 0 .. (PORT_BATCH_SIZE - 1))
    ELSE IF ZCard(z) = 1
    THEN LET starting_port == ZRangeFirst(z)
         IN ZAddAll(z, (starting_port + 1) ..
                       (starting_port + PORT_BATCH_SIZE))
    ELSE z

\* the pool after the seeding done before the smallest port is read
SeededPool(z) ==
    IF ZCard(z) = 0
    THEN ZAddAll(z, STARTING_PORT .. (STARTING_PORT + PORT_BATCH_SIZE - 1))
    ELSE IF ZCard(z) = 1
    THEN LET starting_port == ZRangeFirst(z)
         IN ZAddAll(z, (starting_port + 1) ..
                       (starting_port + PORT_BATCH_SIZE))
    ELSE z

next_available_port(z) == ZRangeFirst(SeededPool(z))

\* the port handed out stays in the pool
PoolAfterAllocation_KeepsPort(z) == SeededPool(z)

PoolAfterAllocation(z) == ZRem(SeededPool(z), next_available_port(z))

\* a call of next_available_port whose caller is left out of the model
NextAvailablePort(host, limit) ==
    /\ UNCHANGED <<cliVars, restVars>>
    /\ nallocs < limit
    /\ host_ports' =
           [host_ports EXCEPT ![host] = PoolAfterAllocation(@)]
    /\ nallocs' = nallocs + 1
    /\ released' = [released EXCEPT
           ![host] = @ \ {next_available_port(host_ports[host])}]
    /\ allocated' = [allocated EXCEPT
           ![host] = @ \cup {next_available_port(host_ports[host])}]
    /\ last_op' =
           [NoOp EXCEPT
               !.op = "allocate", !.host = host,
               !.port = next_available_port(host_ports[host]),
               !.reused = next_available_port(host_ports[host])
                              \in released[host]]
    /\ UNCHANGED <<services, service_guids, service_instance, service,
                   discover>>

(***************************************************************************)
(* RedisServiceRegistry.register_service                                   *)
(***************************************************************************)
\* the mapping Service._set_config hands to register_service
ServiceMap(g) ==
    [name |-> StrOfString(service[g].name),
     env |-> StrOfString(Env),
     guid |-> StrOfString(g),
     pid |-> StrOfInt(service[g].pid),
     host |-> StrOfString(service[g].host),
     port |-> StrOfInt(service[g].port),
     socket_type |-> StrOfString(service[g].socket_type),
     connect_method |-> StrOfString(service[g].connect_method),
     functions |-> JsonDumps(service[g].functions),
     start_time |-> JsonDumpsInt(service[g].start_time),
     alive |-> JsonDumps(TRUE)]

register_service(name, guid, service_map) ==
    /\ MANDATORY_FIELDS \subseteq DOMAIN service_map
    /\ services' = services \cup {name}
    /\ service_guids' =
           [service_guids EXCEPT ![name] = @ \cup {guid}]
    /\ service_instance' =
           [service_instance EXCEPT ![name][guid] = service_map]
    /\ UNCHANGED host_ports

(***************************************************************************)
(* RedisServiceRegistry.deregister_service                                 *)
(***************************************************************************)
\* hgetall(service_instance_key)['port'] raises KeyError when the mapping
\* is gone
HasPort(name, guid) == "port" \in DOMAIN service_instance[name][guid]

\* the name of the service stays in the services set
deregister_service_KeepsName(name, guid, host) ==
    LET service_guids_card == Cardinality(service_guids[name])
        service_instance_map == service_instance[name][guid]
    IN  /\ service_instance' =
               [service_instance EXCEPT ![name][guid] = EmptyHash]
        /\ service_guids' =
               [service_guids EXCEPT ![name] =
                   IF service_guids_card = 1 THEN {} ELSE @ \ {guid}]
        /\ services' = services
        /\ host_ports' =
               IF HasPort(name, guid)
               THEN [host_ports EXCEPT ![host] =
                        ZAdd(@, service_instance_map.port.val,
                             service_instance_map.port.val)]
               ELSE host_ports
        /\ released' =
               IF HasPort(name, guid)
               THEN [released EXCEPT ![host] =
                        @ \cup {service_instance_map.port.val}]
               ELSE released
        /\ allocated' =
               IF HasPort(name, guid)
               THEN [allocated EXCEPT ![host] =
                        @ \ {service_instance_map.port.val}]
               ELSE allocated

deregister_service(name, guid, host) ==
    LET services_card == Cardinality(services)
        service_guids_card == Cardinality(service_guids[name])
        service_instance_map == service_instance[name][guid]
    IN  /\ service_instance' =
               [service_instance EXCEPT ![name][guid] = EmptyHash]
        /\ service_guids' =
               [service_guids EXCEPT ![name] =
                   IF service_guids_card = 1 THEN {} ELSE @ \ {guid}]
        /\ services' =
               IF service_guids_card = 1
               THEN IF services_card = 1 THEN {} ELSE services \ {name}
               ELSE services
        /\ host_ports' =
               IF HasPort(name, guid)
               THEN [host_ports EXCEPT ![host] =
                        ZAdd(@, service_instance_map.port.val,
                             service_instance_map.port.val)]
               ELSE host_ports
        /\ released' =
               IF HasPort(name, guid)
               THEN [released EXCEPT ![host] =
                        @ \cup {service_instance_map.port.val}]
               ELSE released
        /\ allocated' =
               IF HasPort(name, guid)
               THEN [allocated EXCEPT ![host] =
                        @ \ {service_instance_map.port.val}]
               ELSE allocated

(***************************************************************************)
(* Service._set_config and Service.run: the life of a service instance.    *)
(* A guid whose instance has ended and left the directory is used again    *)
(* for a later instance.                                                   *)
(***************************************************************************)
\* _set_config up to the port reservation of _get_socket_for_service
GetSocketForService(g, name, host, pid, start_time, limit) ==
    /\ UNCHANGED <<cliVars, restVars>>
    /\ service[g].pc = "init"
    /\ nallocs < limit
    /\ service' = [service EXCEPT ![g] =
           [NoService EXCEPT
               !.pc = "reserved", !.name = name, !.host = host,
               !.pid = pid, !.start_time = start_time,
               !.functions = MESSAGE_HANDLERS(name),
               !.port = next_available_port(host_ports[host])]]
    /\ host_ports' =
           [host_ports EXCEPT ![host] = PoolAfterAllocation(@)]
    /\ nallocs' = nallocs + 1
    /\ released' = [released EXCEPT
           ![host] = @ \ {next_available_port(host_ports[host])}]
    /\ allocated' = [allocated EXCEPT
           ![host] = @ \cup {next_available_port(host_ports[host])}]
    /\ last_op' =
           [NoOp EXCEPT
               !.op = "allocate", !.guid = g, !.host = host,
               !.port = next_available_port(host_ports[host]),
               !.reused = next_available_port(host_ports[host])
                              \in released[host]]
    /\ UNCHANGED <<services, service_guids, service_instance, discover>>

\* the rest of _get_socket_for_service: the socket type and connect method
\* of the configuration are validated, then the socket is bound
SetupSockets(g, socket_type, connect_method, bind_ok) ==
    /\ UNCHANGED <<cliVars, restVars>>
    /\ service[g].pc = "reserved"
    /\ service' = [service EXCEPT
           ![g].socket_type = socket_type,
           ![g].connect_method = connect_method,
           ![g].pc = IF /\ socket_type \in VALID_SCK_TYPES
                        /\ connect_method \in VALID_CONN_METHOD
                        /\ bind_ok
                     THEN "bound" ELSE "failed"]
    /\ UNCHANGED <<services, service_guids, service_instance, host_ports,
                   nallocs, discover, released, allocated,
                   last_op>>

\* ServiceMessageHandler.__init__ after initialize(): the test that raises
\* BadServiceMessageHandlerError looks at response_class twice
ConstructorRaises(is_proto, request_class, response_class) ==
    is_proto /\ (~ response_class \/ ~ response_class)

\* _setup_message_handlers of a service class whose own handler is built
\* with is_proto and whose initialize() sets, or does not set, the two
\* classes; the default handlers are built with is_proto=False
ConstructHandlers(g, is_proto, request_class, response_class) ==
    /\ UNCHANGED <<cliVars, restVars>>
    /\ service[g].pc = "bound"
    /\ service' = [service EXCEPT
           ![g].is_proto = is_proto,
           ![g].request_class = request_class,
           ![g].response_class = response_class,
           ![g].handlers =
               IF ConstructorRaises(is_proto, request_class, response_class)
               THEN {} ELSE Range(service[g].functions),
           ![g].pc =
               IF ConstructorRaises(is_proto, request_class, response_class)
               THEN "failed" ELSE "handlers"]
    /\ UNCHANGED <<services, service_guids, service_instance, host_ports,
                   nallocs, discover, released, allocated,
                   last_op>>

\* a handler constructor may raise
SetupMessageHandlers(g, handlers_ok) ==
    /\ UNCHANGED <<cliVars, restVars>>
    /\ service[g].pc = "bound"
    /\ service' = [service EXCEPT
           ![g].handlers = IF handlers_ok THEN Range(service[g].functions)
                           ELSE {},
           ![g].pc = IF handlers_ok THEN "handlers" ELSE "failed"]
    /\ UNCHANGED <<services, service_guids, service_instance, host_ports,
                   nallocs, discover, released, allocated,
                   last_op>>

\* a registration that does not wait for the handlers
RegisterService_BeforeHandlers(g) ==
    /\ UNCHANGED <<cliVars, restVars>>
    /\ service[g].pc = "bound"
    /\ register_service(service[g].name, g, ServiceMap(g))
    /\ service' = [service EXCEPT ![g].pc = "running"]
    /\ last_op' = [NoOp EXCEPT !.op = "register", !.guid = g,
                            !.host = service[g].host,
                            !.port = service[g].port,
                            !.pre = Directory]
    /\ UNCHANGED <<nallocs, discover, released, allocated>>

RegisterService(g) ==
    /\ UNCHANGED <<cliVars, restVars>>
    /\ service[g].pc = "handlers"
    /\ register_service(service[g].name, g, ServiceMap(g))
    /\ service' = [service EXCEPT ![g].pc = "running"]
    /\ last_op' = [NoOp EXCEPT !.op = "register", !.guid = g,
                            !.host = service[g].host,
                            !.port = service[g].port,
                            !.pre = Directory]
    /\ UNCHANGED <<nallocs, discover, released, allocated>>

\* the except clause of _set_config
SetConfigExcept(g) ==
    /\ UNCHANGED <<cliVars, restVars>>
    /\ service[g].pc = "failed"
    /\ deregister_service(service[g].name, g, service[g].host)
    /\ service' = [service EXCEPT ![g] = NoService]
    /\ last_op' = NoOp
    /\ UNCHANGED <<nallocs, discover>>

\* the finally clause of run: the dispatch loop has ended
RunFinally(g) ==
    /\ UNCHANGED <<cliVars, restVars>>
    /\ service[g].pc = "running"
    /\ deregister_service(service[g].name, g, service[g].host)
    /\ service' = [service EXCEPT ![g] = NoService]
    /\ last_op' =
           IF last_op.op = "register" /\ last_op.guid = g
           THEN [last_op EXCEPT !.op = "roundtrip"]
           ELSE NoOp
    /\ UNCHANGED <<nallocs, discover>>

(***************************************************************************)
(* Service._run and Service.run: the dispatch loop of an instance and the  *)
(* clauses of run() around it.                                             *)
(***************************************************************************)
\* the handlers whose handle() can raise: HealthCheckHandler samples the
\* process through psutil outside a try, and a handler of the service
\* class is code of the service
RaisingHandlers == {"healthcheck", "greet"}

\* what handle() of the handler of a function returns
HandlerResponse(name, function) ==
    IF function = "heartbeat" THEN "PONG"
    ELSE IF function = "stop" THEN "STOPPED"
    ELSE IF function = "default"
    THEN IF name = "a" THEN "Function not available for service: a"
         ELSE "Function not available for service: b"
    ELSE IF function \in {"healthcheck", "description"} THEN "json document"
    ELSE "serialized response"

\* a deque that drops the entry just added when it is full
appendleft_DropsNewest(function_deque, function) ==
    LET d == <<function>> \o function_deque
    IN  IF Len(d) > FUNCTIONS_DECK_LENGTH THEN SubSeq(d, 2, Len(d)) ELSE d

\* collections.deque(maxlen=FUNCTIONS_DECK_LENGTH).appendleft
appendleft(function_deque, function) ==
    LET d == <<function>> \o function_deque
    IN  IF Len(d) > FUNCTIONS_DECK_LENGTH
        THEN SubSeq(d, 1, FUNCTIONS_DECK_LENGTH)
        ELSE d

\* num_success is counted before handle() is called
CountHandled_SuccessFirst(stats, handled) ==
    IF handled
    THEN [stats EXCEPT !.num_success = @ + 1]
    ELSE [stats EXCEPT !.num_success = @ + 1, !.num_error = @ + 1]

\* a message whose handler raised is counted as a success
CountHandled_ErrorAsSuccess(stats, handled) ==
    [stats EXCEPT !.num_success = @ + 1]

\* the try around handle(): num_success after a return, num_error in the
\* except clause
CountHandled(stats, handled) ==
    IF handled
    THEN [stats EXCEPT !.num_success = @ + 1]
    ELSE [stats EXCEPT !.num_error = @ + 1]

Max(a, b) == IF a >= b THEN a ELSE b
Min(a, b) == IF a <= b THEN a ELSE b

\* the latency statistics after a message that took
\* response_processing_time; num_messages counts that message already
UpdateStats(stats, response_processing_time) ==
    [stats EXCEPT
        !.last_response_time = response_processing_time,
        !.max_response_time = Max(@, response_processing_time),
        !.min_response_time =
            IF @ = 0 THEN response_processing_time
            ELSE Min(@, response_processing_time),
        !.avg_response_time =
            [num |-> response_processing_time * @.den
                         + (stats.num_messages - 1) * @.num,
             den |-> @.den * stats.num_messages]]

\* the keys HealthCheckHandler.handle writes into d['stats'], which is
\* the stats dict of the service itself and no copy of it
OS_SAMPLE_FIELDS == {"cpu_percent", "vms", "rss", "memory_percent"}

HealthCheckSamples(stats) ==
    [f \in DOMAIN stats \cup OS_SAMPLE_FIELDS |->
        IF f \in OS_SAMPLE_FIELDS THEN "sample" ELSE stats[f]]

\* the stats of the service after handle() of the handler of a function
\* has returned
StatsAfterHandle(function, stats) ==
    IF function = "healthcheck" THEN HealthCheckSamples(stats) ELSE stats

\* run() is called by run_service, which has written the pid file
Run(g) ==
    /\ service[g].pc = "running"
    /\ run[g].pc = "off"
    /\ run' = [run EXCEPT ![g] = [NoRun EXCEPT !.pc = "poll",
                                               !.pid_file = TRUE]]
    /\ UNCHANGED <<regVars, cliVars, restButRun>>

\* the head of an iteration: poll() returns or raises; recv_multipart
\* gives the frames of a message, which are unpacked into two names
\* (ValueError when there are not two); the function is looked up,
\* entered in the deck and counted
Poll(g, outcome, function, frames, limit) ==
    /\ service[g].pc = "running"
    /\ run[g].pc = "poll"
    /\ outcome = "ready" => Len(run[g].received) < limit
    /\ run' = [run EXCEPT ![g] =
           IF outcome = "interrupt"
           THEN [@ EXCEPT !.pc = "exit", !.exit = "KeyboardInterrupt"]
           ELSE IF outcome = "error"
           THEN [@ EXCEPT !.pc = "exit", !.exit = "Exception"]
           ELSE IF frames # 2
           THEN [@ EXCEPT !.pc = "exit", !.exit = "ValueError"]
           ELSE [@ EXCEPT
                    !.pc = "handle",
                    !.function =
                        IF function \in service[g].handlers
                        THEN function ELSE "default",
                    !.function_deque =
                        appendleft(@,
                            IF function \in service[g].handlers
                            THEN function ELSE "default"),
                    !.stats.num_messages = @ + 1,
                    !.received = Append(@, function)]]
    /\ UNCHANGED <<regVars, cliVars, restButRun>>

\* handle() of the handler returns, raises an Exception or is
\* interrupted, and the latency statistics are brought up to date; a
\* healthcheck that raises does so at its first psutil call, and a
\* description reply carries the stats as they are
Handle(g, outcome, response_processing_time) ==
    /\ run[g].pc = "handle"
    /\ outcome = "raise" => run[g].function \in RaisingHandlers
    /\ run' = [run EXCEPT ![g] =
           IF outcome = "interrupt"
           THEN [@ EXCEPT !.pc = "exit", !.exit = "KeyboardInterrupt"]
           ELSE [@ EXCEPT
                    !.pc = "send",
                    !.response =
                        IF outcome = "return"
                        THEN HandlerResponse(service[g].name, run[g].function)
                        ELSE "empty response",
                    !.stats =
                        UpdateStats(
                            CountHandled(
                                IF outcome = "return"
                                THEN StatsAfterHandle(run[g].function, @)
                                ELSE @,
                                outcome = "return"),
                            response_processing_time),
                    !.described =
                        IF outcome = "return" /\ run[g].function = "description"
                        THEN Append(@, DOMAIN run[g].stats)
                        ELSE @,
                    !.outcomes = Append(@, outcome),
                    !.samples = Append(@, response_processing_time)]]
    /\ UNCHANGED <<regVars, cliVars, restButRun>>

\* self.socket.send(response), and StopServiceError after a stop message
Send(g) ==
    /\ run[g].pc = "send"
    /\ run' = [run EXCEPT ![g] =
           IF run[g].function = "stop"
           THEN [@ EXCEPT !.pc = "exit", !.exit = "StopServiceError",
                          !.sent = Append(@, run[g].response)]
           ELSE [@ EXCEPT !.pc = "poll",
                          !.sent = Append(@, run[g].response)]]
    /\ UNCHANGED <<regVars, cliVars, restButRun>>

\* the except clauses of run() swallow what left the loop; the finally
\* clause calls deregister_service, whose error leaves run(), and then
\* os.remove(self.pid_file), whose error is swallowed
RunCleanup(g, deregister_ok, remove_ok) ==
    /\ run[g].pc = "exit"
    /\ IF deregister_ok
       THEN /\ deregister_service(service[g].name, g, service[g].host)
            /\ run' = [run EXCEPT ![g].pc = "stopped",
                                  ![g].deregister_called = TRUE,
                                  ![g].remove_called = TRUE,
                                  ![g].pid_file = ~ remove_ok]
       ELSE /\ run' = [run EXCEPT ![g].pc = "stopped",
                                  ![g].deregister_called = TRUE,
                                  ![g].raised = "RedisError"]
            /\ UNCHANGED <<services, service_guids, service_instance,
                           host_ports, released, allocated>>
    /\ service' = [service EXCEPT ![g].pc = "stopped"]
    /\ last_op' = NoOp
    /\ UNCHANGED <<nallocs, discover, cliVars, restButRun>>

(***************************************************************************)
(* ServiceMessageHandler.handle of a structured handler                    *)
(* (core/service_message_handler.py).                                      *)
(***************************************************************************)
RequestGuids == {"r1", "r2", "r3"}
RequestClients == {"c1", "c2"}
ValidationErrors == {"ValueError", "BadServiceRequestError"}
HandleErrors == {"KeyError", "NotImplementedError"}
Bodies == {"Hello world", "Hello, x"}
ResponseTimes == {0, 3}

\* the requests a client serializes, whole and cut short
RequestMessages ==
    LET whole == {SerializeToString(
                      [header |-> [request_guid |-> r, client |-> c]]) :
                      r \in RequestGuids, c \in RequestClients}
    IN  whole \cup {Truncated(m) : m \in whole}

\* the error of the decoding is handed on as it is
DecodeFailure_Unwrapped(exception) == exception

\* except Exception as exception: raise BadServiceRequestError(exception)
DecodeFailure(exception) == "BadServiceRequestError"

\* the response keeps its own request_guid
CopyRequestGuid_Skipped(response, request_guid) == response

\* response.header.request_guid = request_guid
CopyRequestGuid(response, request_guid) ==
    [response EXCEPT !.header.request_guid = request_guid]

\* _response_from_exception, up to the fields the model keeps
ResponseFromException(exception, response) ==
    [response EXCEPT !.header.success = FALSE,
                     !.header.error_type = exception]

\* handle(message) is called: response = self.response_class()
HandleMessage(message) ==
    /\ handler.pc = "idle"
    /\ handler' = [NoHandler EXCEPT !.pc = "parse", !.message = message]
    /\ UNCHANGED <<regVars, cliVars, restButHandler>>

\* the inner try: the request is parsed and its guid is copied
HandleParse ==
    /\ handler.pc = "parse"
    /\ handler' =
           IF Parseable(handler.message)
           THEN LET parsed == ParseFromString(handler.message)
                IN  [handler EXCEPT
                        !.pc = "validate",
                        !.request = parsed,
                        !.request_guid = parsed.header.request_guid,
                        !.response =
                            CopyRequestGuid(@, parsed.header.request_guid)]
           ELSE [handler EXCEPT
                    !.pc = "except",
                    !.exception = DecodeFailure("DecodeError")]
    /\ UNCHANGED <<regVars, cliVars, restButHandler>>

\* self._validate_request(request) of the derived handler
HandleValidate(outcome) ==
    /\ handler.pc = "validate"
    /\ handler' =
           IF outcome = "return"
           THEN [handler EXCEPT !.pc = "handle"]
           ELSE [handler EXCEPT !.pc = "except", !.exception = outcome]
    /\ UNCHANGED <<regVars, cliVars, restButHandler>>

\* self._handle(request, response) of the derived handler and
\* response.header.success = True after it; a KeyboardInterrupt is not
\* caught by except Exception
HandleHandle(outcome, body) ==
    /\ handler.pc = "handle"
    /\ handler' =
           IF outcome = "return"
           THEN [handler EXCEPT !.pc = "finally",
                                !.response.body = body,
                                !.response.header.success = TRUE]
           ELSE IF outcome = "interrupt"
           THEN [handler EXCEPT !.pc = "finally", !.interrupted = TRUE,
                                !.propagated = "KeyboardInterrupt"]
           ELSE [handler EXCEPT !.pc = "except", !.exception = outcome]
    /\ UNCHANGED <<regVars, cliVars, restButHandler>>

\* except Exception as exception: the error is stamped into the header;
\* str() of the message or of an argument of the exception may raise
\* after success and error.type are set
HandleExcept(stamp_ok) ==
    /\ handler.pc = "except"
    /\ handler' =
           [handler EXCEPT
               !.pc = "finally",
               !.response =
                   ResponseFromException(handler.exception, @),
               !.propagated =
                   IF stamp_ok THEN None ELSE "UnicodeEncodeError"]
    /\ UNCHANGED <<regVars, cliVars, restButHandler>>

\* finally: the response time is set and the return of the serialized
\* response discards whatever was being raised
HandleFinally(response_time) ==
    /\ handler.pc = "finally"
    /\ handler' =
           [handler EXCEPT
               !.pc = "done",
               !.response.header.response_time = response_time,
               !.result =
                   SerializeToString(
                       [handler.response EXCEPT
                           !.header.response_time = response_time]),
               !.propagated = None]
    /\ UNCHANGED <<regVars, cliVars, restButHandler>>

\* the dispatch loop has the serialized response
HandleReturn ==
    /\ handler.pc = "done"
    /\ handler' = NoHandler
    /\ UNCHANGED <<regVars, cliVars, restButHandler>>

NextHandler ==
    \/ \E message \in RequestMessages : HandleMessage(message)
    \/ HandleParse
    \/ \E outcome \in {"return"} \cup ValidationErrors :
            HandleValidate(outcome)
    \/ \E outcome \in {"return", "interrupt"} \cup HandleErrors,
          body \in Bodies :
            HandleHandle(outcome, body)
    \/ \E stamp_ok \in BOOLEAN : HandleExcept(stamp_ok)
    \/ \E response_time \in ResponseTimes : HandleFinally(response_time)
    \/ HandleReturn

SpecHandler == Init /\ [][NextHandler]_vars

(***************************************************************************)
(* ResourcePool (core/resourcepool/resourcepool.py) and                    *)
(* ServiceMethodCaller.__call__ (core/service_method_caller.py).  The      *)
(* queue of the pool is a Queue.Queue: its get and put are atomic.         *)
(***************************************************************************)
PooledClients == <<"c1", "c2", "c3">>

\* ServiceClientResource.good_to_use: the alive flag of the client, which
\* is built without a heartbeat thread
good_to_use(resource) == pool.alive[resource]

\* a get that leaves the resource in the queue
QueueAfterGet_Peek(resources) == resources

\* Queue.get takes the head out of the queue
QueueAfterGet(resources) == Tail(resources)

\* ServiceMethodCaller.__init__: _create_service_pool fills the pool
\* with live clients
CreateServicePool(pool_size) ==
    /\ pool.resources = <<>>
    /\ \A t \in Threads : calls[t].pc = "idle"
    /\ \A r \in Resources : ~ pool.alive[r]
    /\ pool' =
           [resources |-> SubSeq(PooledClients, 1, pool_size),
            alive |-> [r \in Resources |->
                          r \in Range(SubSeq(PooledClients, 1, pool_size))],
            dropped |-> {}]
    /\ UNCHANGED <<regVars, cliVars, restButPool, calls>>

\* __call__ of a managed service: pool.acquire(timeout) is entered
MethodCall(t) ==
    /\ calls[t].pc = "idle"
    /\ \E r \in Resources : pool.alive[r]
    /\ calls' = [calls EXCEPT ![t] = [NoCall EXCEPT !.pc = "empty"]]
    /\ UNCHANGED <<regVars, cliVars, restButPool, pool>>

\* the except clauses of __call__ that let every exception through as
\* ClientResourceNotAvailableError
CallExcept_Wrapped(exception) == "ClientResourceNotAvailableError"

\* the except clauses of __call__: Queue.Empty becomes
\* ClientResourceNotAvailableError, any other exception is raised again
CallExcept(exception) ==
    IF exception = "Queue.Empty" THEN "ClientResourceNotAvailableError" ELSE exception

\* ServiceClient.shutdown as request() calls it when it fails: it returns
\* at once for a client without heartbeat thread or with a shutdown_time,
\* and sets alive = False for any other
AliveAfterShutdown(heartbeat_thread, shutdown_time, alive) ==
    IF ~ heartbeat_thread \/ shutdown_time # 0 THEN alive ELSE FALSE

\* acquire: if self._resources.empty(): raise Queue.Empty, which
\* __call__ turns into ClientResourceNotAvailableError
AcquireEmpty(t) ==
    /\ calls[t].pc = "empty"
    /\ calls' = [calls EXCEPT ![t] =
           IF pool.resources = <<>>
           THEN [@ EXCEPT !.pc = "done",
                          !.raised = IF calls[t].direct
                                     THEN "Queue.Empty"
                                     ELSE CallExcept("Queue.Empty")]
           ELSE [@ EXCEPT !.pc = "get"]]
    /\ UNCHANGED <<regVars, cliVars, restButPool, pool>>

\* acquire: self._resources.get(True, timeout) gives the head of the
\* queue, waits while the queue is empty and raises Queue.Empty when the
\* timeout ends the wait; self._resources.get() of an acquire without
\* timeout waits with no end
AcquireGet(t, timed_out) ==
    /\ calls[t].pc = "get"
    /\ pool.resources # <<>> \/ (timed_out /\ calls[t].timeout)
    /\ IF pool.resources # <<>>
       THEN /\ calls' = [calls EXCEPT ![t].pc = "good",
                                      ![t].resource = Head(pool.resources)]
            /\ pool' = [pool EXCEPT !.resources = QueueAfterGet(@)]
       ELSE /\ calls' = [calls EXCEPT
                   ![t].pc = "done",
                   ![t].waited = TRUE,
                   ![t].raised = IF calls[t].direct
                                 THEN "Queue.Empty"
                                 ELSE CallExcept("Queue.Empty")]
            /\ UNCHANGED pool
    /\ UNCHANGED <<regVars, cliVars, restButPool>>

\* an acquire that wraps and returns whatever it took out of the queue
AcquireGood_AnyResource(t) ==
    /\ calls[t].pc = "good"
    /\ calls' = [calls EXCEPT ![t].pc = "request",
                              ![t].wrapper_pool = TRUE]
    /\ UNCHANGED <<regVars, cliVars, restButPool, pool>>

\* acquire: a resource that is good to use is wrapped and returned, any
\* other is left out of the pool and the loop starts over
AcquireGood(t) ==
    /\ calls[t].pc = "good"
    /\ calls' = [calls EXCEPT ![t] =
           IF good_to_use(calls[t].resource)
           THEN [@ EXCEPT !.pc = "request", !.wrapper_pool = TRUE]
           ELSE [@ EXCEPT !.pc = "empty", !.resource = None,
                          !.skipped = @ + 1]]
    /\ pool' =
           IF good_to_use(calls[t].resource)
           THEN pool
           ELSE [pool EXCEPT !.dropped = @ \cup {calls[t].resource}]
    /\ UNCHANGED <<regVars, cliVars, restButPool>>

\* the body of the with statement: client.request sends and returns or
\* raises; a request that fails calls shutdown() on the client, which
\* ServiceClientResource built with start_heartbeat_thread=False and which
\* has no shutdown_time; the exception goes through the except clauses
ClientRequest(t, outcome) ==
    /\ calls[t].pc = "request"
    /\ calls' = [calls EXCEPT
           ![t].pc = "release",
           ![t].sent = TRUE,
           ![t].client_error = IF outcome = "return" THEN None ELSE outcome,
           ![t].raised = IF outcome = "return" THEN None ELSE CallExcept(outcome)]
    /\ pool' =
           IF outcome = "return"
           THEN pool
           ELSE [pool EXCEPT !.alive[calls[t].resource] = AliveAfterShutdown(FALSE, 0, @)]
    /\ UNCHANGED <<regVars, cliVars, restButPool>>

\* Resource.__exit__: release() puts a resource that is good to use back
\* and sets self._pool = None
ResourceRelease(t) ==
    /\ calls[t].pc = "release"
    /\ pool' =
           IF good_to_use(calls[t].resource)
           THEN [pool EXCEPT !.resources = Append(@, calls[t].resource)]
           ELSE pool
    /\ calls' = [calls EXCEPT ![t].pc = "del", ![t].wrapper_pool = FALSE,
                              ![t].releases = @ + 1]
    /\ UNCHANGED <<regVars, cliVars, restButPool>>

\* Resource.__del__ when the call is over: release() again when
\* self._pool is not None
ResourceDel(t) ==
    /\ calls[t].pc = "del"
    /\ pool' =
           IF calls[t].wrapper_pool /\ good_to_use(calls[t].resource)
           THEN [pool EXCEPT !.resources = Append(@, calls[t].resource)]
           ELSE pool
    /\ calls' = [calls EXCEPT ![t].pc = "done", ![t].wrapper_pool = FALSE]
    /\ UNCHANGED <<regVars, cliVars, restButPool>>

\* the caller has the response or the exception
MethodReturn(t) ==
    /\ calls[t].pc = "done"
    /\ calls' = [calls EXCEPT ![t] = NoCall]
    /\ UNCHANGED <<regVars, cliVars, restButPool, pool>>

NextPool ==
    \/ \E pool_size \in 1..MaxPoolSize : CreateServicePool(pool_size)
    \/ \E t \in Threads : MethodCall(t)
    \/ \E t \in Threads : AcquireEmpty(t)
    \/ \E t \in Threads, timed_out \in BOOLEAN : AcquireGet(t, timed_out)
    \/ \E t \in Threads : AcquireGood(t)
    \/ \E t \in Threads,
          outcome \in {"return", "ServiceClientError",
                       "ServiceClientTimeoutError"} :
            ClientRequest(t, outcome)
    \/ \E t \in Threads : ResourceRelease(t)
    \/ \E t \in Threads : ResourceDel(t)
    \/ \E t \in Threads : MethodReturn(t)

SpecPool == Init /\ [][NextPool]_vars

(***************************************************************************)
(* A holder of a Resource wrapper that releases it more than once:         *)
(* release(), the __exit__ of a with statement and __del__ in any order.   *)
(***************************************************************************)
ReleaseOps == {"release", "exit", "del"}

\* Resource.release: a resource that is good to use goes through
\* self._pool.release, which is an attribute of None once the wrapper was
\* released; any other resource is only reported
ReleaseOutcome(wrapper_pool, good) ==
    IF good THEN (IF wrapper_pool THEN "put" ELSE "AttributeError") ELSE "skip"

\* release() and __exit__ run release; __del__ runs it when self._pool is
\* not None, inside a bare except, and is the end of the wrapper
HandleRelease(t, op, limit) ==
    /\ calls[t].pc \in {"request", "handle"}
    /\ calls[t].releases < limit
    /\ LET outcome == IF op = "del" /\ ~ calls[t].wrapper_pool THEN "skip" ELSE ReleaseOutcome(calls[t].wrapper_pool, good_to_use(calls[t].resource))
       IN  /\ pool' =
                  IF outcome = "put"
                  THEN [pool EXCEPT !.resources = Append(@, calls[t].resource)]
                  ELSE pool
           /\ calls' = [calls EXCEPT
                  ![t].pc = IF op = "del" THEN "done" ELSE "handle",
                  ![t].wrapper_pool = FALSE,
                  ![t].releases = @ + 1,
                  ![t].release_raised = IF outcome = "AttributeError" /\ op # "del" THEN "AttributeError" ELSE @]
    /\ UNCHANGED <<regVars, cliVars, restButPool>>

NextResource ==
    \/ \E pool_size \in 1..MaxPoolSize : CreateServicePool(pool_size)
    \/ \E t \in Threads : MethodCall(t)
    \/ \E t \in Threads : AcquireEmpty(t)
    \/ \E t \in Threads, timed_out \in BOOLEAN : AcquireGet(t, timed_out)
    \/ \E t \in Threads : AcquireGood(t)
    \/ \E t \in Threads, op \in ReleaseOps : HandleRelease(t, op, MaxReleases)
    \/ \E t \in Threads : MethodReturn(t)

SpecResource == Init /\ [][NextResource]_vars

(***************************************************************************)
(* Threads that call ResourcePool.acquire themselves, with a timeout or    *)
(* without one, on a pool whose resources may stop being good to use.      *)
(***************************************************************************)
\* pool.acquire() or pool.acquire(timeout) is entered
PoolAcquire(t, timeout) ==
    /\ calls[t].pc = "idle"
    /\ pool # NoPool
    /\ calls' = [calls EXCEPT ![t] =
           [NoCall EXCEPT !.pc = "empty", !.direct = TRUE,
                          !.timeout = timeout]]
    /\ UNCHANGED <<regVars, cliVars, restButPool, pool>>

\* good_to_use() of a resource turns false, as that of a client whose
\* alive flag a heartbeat thread clears
ResourceGoesBad(r) ==
    /\ pool.alive[r]
    /\ pool' = [pool EXCEPT !.alive[r] = FALSE]
    /\ UNCHANGED <<regVars, cliVars, restButPool, calls>>

\* the threads that share the pool
AcquireThreads == {"t1", "t2"}

NextAcquire ==
    \/ \E pool_size \in 1..MaxPoolSize : CreateServicePool(pool_size)
    \/ \E t \in AcquireThreads, timeout \in BOOLEAN : PoolAcquire(t, timeout)
    \/ \E r \in Resources : ResourceGoesBad(r)
    \/ \E t \in AcquireThreads : AcquireEmpty(t)
    \/ \E t \in AcquireThreads, timed_out \in BOOLEAN : AcquireGet(t, timed_out)
    \/ \E t \in AcquireThreads : AcquireGood(t)
    \/ \E t \in AcquireThreads, op \in ReleaseOps : HandleRelease(t, op, MaxReleases)
    \/ \E t \in AcquireThreads : MethodReturn(t)

SpecAcquire == Init /\ [][NextAcquire]_vars

(***************************************************************************)
(* RedisServiceRegistry.discover_service                                   *)
(***************************************************************************)
client_socket_type_known(socket_type) ==
    /\ socket_type.fmt = "raw"
    /\ socket_type.val \in {"REP", "REQ", "PUB", "SUB", "PUSH", "PULL"}

client_socket_type(socket_type) ==
    IF socket_type.val = "REP" THEN StrOfString("REQ")
    ELSE IF socket_type.val = "REQ" THEN StrOfString("REP")
    ELSE IF socket_type.val = "PUB" THEN StrOfString("SUB")
    ELSE IF socket_type.val = "SUB" THEN StrOfString("PUB")
    ELSE IF socket_type.val = "PUSH" THEN StrOfString("PULL")
    ELSE StrOfString("PUSH")

\* the connect method is handed to the client as stored
client_connect_method_Unflipped(connect_method) == connect_method

client_connect_method(connect_method) ==
    IF connect_method = StrOfString("bind") THEN StrOfString("connect")
    ELSE StrOfString("bind")

JsonFields == {"port", "pid", "start_time", "alive"}

\* the error of the decoding loop over one config, None when it decodes
DecodeError(config) ==
    IF ~ ("socket_type" \in DOMAIN config) THEN "KeyError"
    ELSE IF ~ client_socket_type_known(config.socket_type)
    THEN "UnknownSocketTypeError"
    ELSE IF ~ ("connect_method" \in DOMAIN config) THEN "KeyError"
    ELSE IF ~ ("functions" \in DOMAIN config) THEN "KeyError"
    ELSE IF ~ JsonLoadable(config.functions) THEN "ValueError"
    ELSE IF \E f \in JsonFields \cap DOMAIN config :
                ~ JsonLoadable(config[f])
    THEN "ValueError"
    ELSE None

\* the config as the decoding loop of discover_service leaves it
DecodeConfig(config) ==
    [f \in DOMAIN config |->
        IF f = "socket_type" THEN client_socket_type(config[f])
        ELSE IF f = "connect_method" THEN client_connect_method(config[f])
        ELSE IF f = "functions" THEN Range(JsonLoads(config[f]))
        ELSE IF f \in JsonFields THEN JsonLoads(config[f])
        ELSE config[f]]

\* sismember(services_key, service_name)
DiscoverService(name, num) ==
    /\ UNCHANGED <<cliVars, restVars>>
    /\ discover.pc = "idle"
    /\ discover' =
           IF name \in services
           THEN [NoDiscover EXCEPT !.pc = "smembers", !.name = name,
                                   !.num = num]
           ELSE [NoDiscover EXCEPT !.pc = "done", !.name = name,
                                   !.num = num,
                                   !.error = "ServiceNotAvailableError"]
    /\ UNCHANGED <<services, service_guids, service_instance, host_ports,
                   service, nallocs, released, allocated,
                   last_op>>

\* smembers(service_guids_key) and random.randint(0, len - 1), which
\* raises ValueError for an empty range
DiscoverSmembers ==
    /\ UNCHANGED <<cliVars, restVars>>
    /\ discover.pc = "smembers"
    /\ discover' =
           IF service_guids[discover.name] = {}
           THEN [discover EXCEPT !.pc = "done", !.error = "ValueError"]
           ELSE [discover EXCEPT !.pc = "sample"]
    /\ UNCHANGED <<services, service_guids, service_instance, host_ports,
                   service, nallocs, released, allocated,
                   last_op>>

\* a sample that may fall short of k elements
random_sample_Short(population, k) ==
    {sample \in SUBSET population : Cardinality(sample) <= k}

\* random.sample(population, k): k elements of the population, none twice
random_sample(population, k) ==
    {sample \in SUBSET population : Cardinality(sample) = k}

\* the transaction _get_random_sample, which reads the instance set again
GetRandomSample ==
    /\ UNCHANGED <<cliVars, restVars>>
    /\ discover.pc = "sample"
    /\ LET available_guids == service_guids[discover.name]
       IN \E sample \in SUBSET available_guids :
            /\ IF Cardinality(available_guids) > discover.num
               THEN sample \in random_sample(available_guids, discover.num)
               ELSE sample = available_guids
            /\ discover' = [discover EXCEPT !.pc = "configs",
                                            !.available_guids = available_guids,
                                            !.sample_guids = sample]
    /\ UNCHANGED <<services, service_guids, service_instance, host_ports,
                   service, nallocs, released, allocated,
                   last_op>>

\* the transaction _get_configs and the decoding loop after it
GetConfigs ==
    /\ UNCHANGED <<cliVars, restVars>>
    /\ discover.pc = "configs"
    /\ LET configs == [g \in discover.sample_guids |->
                          service_instance[discover.name][g]]
           bad == {g \in discover.sample_guids :
                      DecodeError(configs[g]) # None}
       IN discover' =
              IF bad = {}
              THEN [discover EXCEPT
                       !.pc = "done",
                       !.configs = [g \in discover.sample_guids |->
                                       DecodeConfig(configs[g])]]
              ELSE [discover EXCEPT
                       !.pc = "done",
                       !.error = DecodeError(
                                     configs[CHOOSE g \in bad : TRUE])]
    /\ UNCHANGED <<services, service_guids, service_instance, host_ports,
                   service, nallocs, released, allocated,
                   last_op>>

\* the caller takes the result
DiscoverReturn ==
    /\ UNCHANGED <<cliVars, restVars>>
    /\ discover.pc = "done"
    /\ discover' = NoDiscover
    /\ UNCHANGED <<services, service_guids, service_instance, host_ports,
                   service, nallocs, released, allocated,
                   last_op>>

(***************************************************************************)
(* Specifications of the registry and the service instances.               *)
(***************************************************************************)
\* three instances of two services on two hosts
Next ==
    \/ \E g \in Guids, name \in Names, host \in Hosts, pid \in Pids,
          start_time \in StartTimes :
            GetSocketForService(g, name, host, pid, start_time, MaxAllocs)
    \/ \E g \in Guids, socket_type \in {"REP", "ROUTER"} :
            SetupSockets(g, socket_type, "bind", TRUE)
    \/ \E g \in Guids : SetupMessageHandlers(g, TRUE)
    \/ \E g \in Guids : RegisterService(g)
    \/ \E g \in Guids : SetConfigExcept(g)
    \/ \E g \in Guids : RunFinally(g)

Spec == Init /\ [][Next]_vars

\* one instance after the other on one host, reserving ports across a
\* batch boundary
NextPorts ==
    \/ \E pid \in Pids, start_time \in StartTimes :
            GetSocketForService("g1", "a", "h1", pid, start_time,
                                MaxPortAllocs)
    \/ \E socket_type \in {"REP", "ROUTER"}, bind_ok \in BOOLEAN :
            SetupSockets("g1", socket_type, "bind", bind_ok)
    \/ \E handlers_ok \in BOOLEAN : SetupMessageHandlers("g1", handlers_ok)
    \/ RegisterService("g1")
    \/ SetConfigExcept("g1")
    \/ RunFinally("g1")

SpecPorts == Init /\ [][NextPorts]_vars

\* two instances that come and go on one host among callers of
\* next_available_port that keep their ports, across a batch boundary
NextHold ==
    \/ \E g \in PortGuids, pid \in Pids, start_time \in StartTimes :
            GetSocketForService(g, "a", "h1", pid, start_time, MaxAllocs)
    \/ NextAvailablePort("h1", MaxHoldAllocs)
    \/ \E g \in PortGuids, socket_type \in {"REP", "ROUTER"} :
            SetupSockets(g, socket_type, "bind", TRUE)
    \/ \E g \in PortGuids : SetupMessageHandlers(g, TRUE)
    \/ \E g \in PortGuids : RegisterService(g)
    \/ \E g \in PortGuids : SetConfigExcept(g)
    \/ \E g \in PortGuids : RunFinally(g)

SpecHold == Init /\ [][NextHold]_vars

\* callers of next_available_port on one host and nothing else
NextAlloc == NextAvailablePort("h1", MaxSeqAllocs)

SpecAlloc == Init /\ [][NextAlloc]_vars

\* two instances of one service and a discover_service caller
NextDiscover ==
    \/ \E g \in PortGuids, pid \in Pids, start_time \in StartTimes :
            GetSocketForService(g, "a", "h1", pid, start_time,
                                MaxDiscoverAllocs)
    \/ \E g \in PortGuids, socket_type \in ConfiguredSocketTypes,
          connect_method \in VALID_CONN_METHOD :
            SetupSockets(g, socket_type, connect_method, TRUE)
    \/ \E g \in PortGuids : SetupMessageHandlers(g, TRUE)
    \/ \E g \in PortGuids : RegisterService(g)
    \/ \E g \in PortGuids : SetConfigExcept(g)
    \/ \E g \in PortGuids : RunFinally(g)
    \/ \E name \in Names, num \in 1..MaxNum : DiscoverService(name, num)
    \/ DiscoverSmembers
    \/ GetRandomSample
    \/ GetConfigs
    \/ DiscoverReturn

SpecDiscover == Init /\ [][NextDiscover]_vars

\* one instance and its dispatch loop: messages for functions that
\* return, raise or are interrupted, with latencies that include 0
StatsFunctions == {"heartbeat", "healthcheck", "stop", "nope"}
Latencies == {0, 3, 5}

NextStats ==
    \/ \E pid \in Pids, start_time \in StartTimes :
            GetSocketForService("g1", "a", "h1", pid, start_time, 1)
    \/ SetupSockets("g1", "REP", "bind", TRUE)
    \/ SetupMessageHandlers("g1", TRUE)
    \/ RegisterService("g1")
    \/ Run("g1")
    \/ \E outcome \in {"ready", "interrupt", "error"},
          function \in StatsFunctions, frames \in {2, 3} :
            Poll("g1", outcome, function, frames, MaxMessages)
    \/ \E outcome \in {"return", "raise", "interrupt"},
          response_processing_time \in Latencies :
            Handle("g1", outcome, response_processing_time)
    \/ Send("g1")
    \/ \E deregister_ok \in BOOLEAN, remove_ok \in BOOLEAN :
            RunCleanup("g1", deregister_ok, remove_ok)

SpecStats == Init /\ [][NextStats]_vars

\* two instances of a service class with a handler of its own, built
\* with every setting of is_proto and of the two classes
NextConstruct ==
    \/ \E g \in PortGuids, host \in Hosts, pid \in Pids,
          start_time \in StartTimes :
            GetSocketForService(g, "a", host, pid, start_time, MaxAllocs)
    \/ \E g \in PortGuids : SetupSockets(g, "REP", "bind", TRUE)
    \/ \E g \in PortGuids, is_proto \in BOOLEAN, request_class \in BOOLEAN,
          response_class \in BOOLEAN :
            ConstructHandlers(g, is_proto, request_class, response_class)
    \/ \E g \in PortGuids : RegisterService(g)
    \/ \E g \in PortGuids : SetConfigExcept(g)
    \/ \E g \in PortGuids : RunFinally(g)

SpecConstruct == Init /\ [][NextConstruct]_vars

\* one instance that is asked for its health and its description
DescribeFunctions == {"healthcheck", "description", "heartbeat"}

NextDescribe ==
    \/ \E pid \in Pids, start_time \in StartTimes :
            GetSocketForService("g1", "a", "h1", pid, start_time, 1)
    \/ SetupSockets("g1", "REP", "bind", TRUE)
    \/ SetupMessageHandlers("g1", TRUE)
    \/ RegisterService("g1")
    \/ Run("g1")
    \/ \E function \in DescribeFunctions :
            Poll("g1", "ready", function, 2, MaxDescribeMessages)
    \/ \E outcome \in {"return", "raise"},
          response_processing_time \in Latencies :
            Handle("g1", outcome, response_processing_time)
    \/ Send("g1")

SpecDescribe == Init /\ [][NextDescribe]_vars

\* one instance receiving more messages than the function deck holds
DeckFunctions == {"heartbeat", "nope"}

NextDeck ==
    \/ \E pid \in Pids, start_time \in StartTimes :
            GetSocketForService("g1", "a", "h1", pid, start_time, 1)
    \/ SetupSockets("g1", "REP", "bind", TRUE)
    \/ SetupMessageHandlers("g1", TRUE)
    \/ RegisterService("g1")
    \/ Run("g1")
    \/ \E function \in DeckFunctions :
            Poll("g1", "ready", function, 2, MaxDeckMessages)
    \/ Handle("g1", "return", 1)
    \/ Send("g1")

SpecDeck == Init /\ [][NextDeck]_vars

\* two instances of one service, of which a bootstrap may fail, their
\* dispatch loops receiving heartbeat and stop messages, and a
\* discover_service caller
NextStop ==
    \/ \E g \in PortGuids, pid \in Pids, start_time \in StartTimes :
            GetSocketForService(g, "a", "h1", pid, start_time,
                                MaxStopAllocs)
    \/ \E g \in PortGuids, socket_type \in {"REP", "ROUTER"} :
            SetupSockets(g, socket_type, "bind", TRUE)
    \/ \E g \in PortGuids : SetupMessageHandlers(g, TRUE)
    \/ \E g \in PortGuids : RegisterService(g)
    \/ \E g \in PortGuids : SetConfigExcept(g)
    \/ \E g \in PortGuids : Run(g)
    \/ \E g \in PortGuids, function \in {"heartbeat", "stop"} :
            Poll(g, "ready", function, 2, MaxStopMessages)
    \/ \E g \in PortGuids : Handle(g, "return", 1)
    \/ \E g \in PortGuids : Send(g)
    \/ \E g \in PortGuids : RunCleanup(g, TRUE, TRUE)
    \/ \E num \in 1..MaxNum : DiscoverService("a", num)
    \/ DiscoverSmembers
    \/ GetRandomSample
    \/ GetConfigs
    \/ DiscoverReturn

SpecStop == Init /\ [][NextStop]_vars

(***************************************************************************)
(* ServiceClient and ClientHeartbeat (client.py).  One client; its         *)
(* service answers a receive with a reply, with no reply before the        *)
(* receive timeout, or with a transport error.                             *)
(***************************************************************************)
socket_from_service_config(timeout) ==
    [open |-> TRUE, rcvtimeo |-> timeout, pending |-> FALSE]

\* functions of the service config the client was built with
ClientFunctions == Range(DEFAULT_FUNCTION_MESSAGE_HANDLERS)

\* ServiceClient.__init__
InitClient ==
    /\ InitRegistry
    /\ InitRest
    /\ \E start_heartbeat_thread \in BOOLEAN, timeout \in ClientTimeouts :
          /\ client =
                 [alive |-> TRUE, shutdown_time |-> 0,
                  killed_by_error |-> None,
                  socket |-> socket_from_service_config(timeout),
                  heartbeat_thread |-> start_heartbeat_thread,
                  stop_event |-> FALSE,
                  functions |-> ClientFunctions]
          /\ heartbeat =
                 IF start_heartbeat_thread
                 THEN [NoHeartbeat EXCEPT
                          !.pc = "loop",
                          !.socket = socket_from_service_config(
                                         HEARTBEAT_TIMEOUT)]
                 ELSE NoHeartbeat
    /\ request = NoRequest

\* an event of the request call, kept in its history
Event(ev, try_num, ms) == [ev |-> ev, try_num |-> try_num, ms |-> ms]

\* pow(2, try_num) * sleep_before_retry
Backoff_Linear(try_num, sleep_before_retry) ==
    (try_num + 1) * sleep_before_retry

Backoff(try_num, sleep_before_retry) == (2 ^ try_num) * sleep_before_retry

\* request(): the locals are set and _setup_socket(timeout=timeout) opens a
\* socket when self._socket is None; the owner of the client calls it
\* outside its shutdown() calls
Request(function_name, timeout, max_tries, sleep_before_retry, response_class) ==
    /\ request.pc = "idle"
    /\ shutdown.pc = "idle"
    /\ client.functions # {}
    /\ request' =
           [NoRequest EXCEPT
               !.pc = "loop", !.function_name = function_name,
               !.timeout = timeout, !.max_tries = max_tries,
               !.sleep_before_retry = sleep_before_retry,
               !.response_class = response_class,
               !.alive_on_entry = client.alive]
    /\ client' =
           IF client.socket.open THEN client
           ELSE [client EXCEPT
                    !.socket = socket_from_service_config(timeout)]
    /\ UNCHANGED <<regVars, restVars, heartbeat>>

\* the head of the while loop: the loop condition, the check of the
\* function name, the sleep before a retry and the new socket after it
RequestLoop ==
    /\ request.pc = "loop"
    /\ IF client.alive /\ request.try_num < request.max_tries
       THEN IF request.function_name \notin client.functions
            THEN /\ request' =
                        [request EXCEPT
                            !.pc = "done", !.alive_read = client.alive,
                            !.raised = "ServiceFunctionNotAvailableError"]
                 /\ UNCHANGED client
            ELSE IF request.sleep_duration # 0
            THEN /\ request' =
                        [request EXCEPT
                            !.pc = "send", !.alive_read = client.alive,
                            !.log = Append(@, Event("wait", request.try_num,
                                               request.sleep_duration))]
                 /\ client' =
                        [client EXCEPT
                            !.socket = socket_from_service_config(
                                           request.timeout)]
            ELSE /\ request' =
                        [request EXCEPT
                            !.pc = "send", !.alive_read = client.alive]
                 /\ UNCHANGED client
       ELSE /\ request' =
                   [request EXCEPT
                       !.pc = "shutdown", !.alive_read = client.alive]
            /\ UNCHANGED client
    /\ UNCHANGED <<regVars, restVars, heartbeat>>

\* self._socket.send_multipart: AttributeError when self._socket is None,
\* ZMQError when the socket still waits for a reply or the send fails
RequestSend(send_ok) ==
    /\ request.pc = "send"
    /\ IF ~ client.socket.open
       THEN /\ request' =
                   [request EXCEPT
                       !.pc = "shutdown", !.error = "ServiceClientError",
                       !.log = Append(@, Event("attribute_error",
                                               request.try_num, 0))]
            /\ UNCHANGED client
       ELSE IF client.socket.pending \/ ~ send_ok
       THEN /\ request' =
                   [request EXCEPT
                       !.pc = "shutdown", !.error = "ServiceClientError",
                       !.log = Append(@, Event("send_error",
                                               request.try_num, 0))]
            /\ UNCHANGED client
       ELSE /\ request' =
                   [request EXCEPT
                       !.pc = "recv",
                       !.log = Append(@, Event("send", request.try_num, 0))]
            /\ client' = [client EXCEPT !.socket.pending = TRUE]
    /\ UNCHANGED <<regVars, restVars, heartbeat>>

\* self._socket.recv() and the decoding of the reply
RequestRecv(outcome) ==
    /\ request.pc = "recv"
    /\ outcome = "timeout" => client.socket.rcvtimeo >= 0
    /\ outcome = "bad_reply" => request.response_class
    /\ IF outcome = "reply"
       THEN /\ request' =
                   [request EXCEPT
                       !.pc = "done", !.result = "response",
                       !.log = Append(@, Event("reply", request.try_num, 0))]
            /\ client' = [client EXCEPT !.socket.pending = FALSE]
       ELSE IF outcome = "bad_reply"
       THEN /\ request' =
                   [request EXCEPT
                       !.pc = "shutdown", !.error = "ServiceClientError",
                       !.log = Append(@, Event("decode_error",
                                               request.try_num, 0))]
            /\ client' = [client EXCEPT !.socket.pending = FALSE]
       ELSE IF outcome = "timeout"
       THEN /\ request' =
                   [request EXCEPT
                       !.pc = "loop",
                       !.error = "ServiceClientTimeoutError",
                       !.sleep_duration =
                           Backoff(request.try_num,
                                   request.sleep_before_retry),
                       !.try_num = @ + 1,
                       !.log = Append(@, Event("timeout",
                                               request.try_num, 0))]
            /\ client' = [client EXCEPT !.socket = NoSocket]
       ELSE /\ request' =
                   [request EXCEPT
                       !.pc = "shutdown", !.error = "ServiceClientError",
                       !.log = Append(@, Event("recv_error",
                                               request.try_num, 0))]
            /\ UNCHANGED client
    /\ UNCHANGED <<regVars, restVars, heartbeat>>

\* shutdown() as called by request(), up to the join of the heartbeat
\* thread
RequestShutdown ==
    /\ request.pc = "shutdown"
    /\ IF ~ client.heartbeat_thread \/ client.shutdown_time # 0
       THEN /\ request' = [request EXCEPT !.pc = "raise"]
            /\ UNCHANGED client
       ELSE /\ request' = [request EXCEPT !.pc = "join"]
            /\ client' = [client EXCEPT !.alive = FALSE,
                                        !.stop_event = TRUE]
    /\ UNCHANGED <<regVars, restVars, heartbeat>>

\* the rest of shutdown() once the heartbeat thread has ended:
\* self._socket.close() raises AttributeError when self._socket is None
RequestJoin ==
    /\ request.pc = "join"
    /\ heartbeat.pc = "done"
    /\ IF ~ client.socket.open
       THEN /\ request' = [request EXCEPT !.pc = "done",
                                          !.raised = "AttributeError"]
            /\ UNCHANGED client
       ELSE /\ request' = [request EXCEPT !.pc = "raise"]
            /\ client' = [client EXCEPT !.socket = NoSocket,
                                        !.shutdown_time = current_timestamp]
    /\ UNCHANGED <<regVars, restVars, heartbeat>>

\* a request() that returns None when no error was recorded
RequestRaise_ReturnsNone ==
    /\ request.pc = "raise"
    /\ IF request.error # None
       THEN /\ request' = [request EXCEPT !.pc = "done",
                                          !.raised = request.error]
            /\ client' = [client EXCEPT !.killed_by_error = request.error]
       ELSE /\ request' = [request EXCEPT !.pc = "done"]
            /\ UNCHANGED client
    /\ UNCHANGED <<regVars, restVars, heartbeat>>

\* the end of request(): the recorded error is raised, and
\* ServiceClientError when there is none
RequestRaise ==
    /\ request.pc = "raise"
    /\ IF request.error # None
       THEN /\ request' = [request EXCEPT !.pc = "done",
                                          !.raised = request.error]
            /\ client' = [client EXCEPT !.killed_by_error = request.error]
       ELSE /\ request' = [request EXCEPT !.pc = "done",
                                          !.raised = "ServiceClientError"]
            /\ UNCHANGED client
    /\ UNCHANGED <<regVars, restVars, heartbeat>>

\* the caller has the reply or the exception
RequestReturn ==
    /\ request.pc = "done"
    /\ request' = NoRequest
    /\ UNCHANGED <<regVars, restVars, client, heartbeat>>

\* a heartbeat loop that does not look at the stop event
HeartbeatLoop_IgnoresStop ==
    /\ heartbeat.pc = "loop"
    /\ heartbeat' =
           IF heartbeat.try_num < HEARTBEAT_MAX_TRIES
           THEN [heartbeat EXCEPT !.pc = "recv", !.error = None,
                                  !.socket.pending = TRUE]
           ELSE [heartbeat EXCEPT !.pc = "exit"]
    /\ UNCHANGED <<regVars, restVars, client, request>>

\* ClientHeartbeat.__call__: the loop condition, the sleep and the send
HeartbeatLoop ==
    /\ heartbeat.pc = "loop"
    /\ heartbeat' =
           IF ~ client.stop_event /\ heartbeat.try_num < HEARTBEAT_MAX_TRIES
           THEN [heartbeat EXCEPT !.pc = "recv", !.error = None,
                                  !.socket.pending = TRUE]
           ELSE [heartbeat EXCEPT !.pc = "exit"]
    /\ UNCHANGED <<regVars, restVars, client, request>>

\* self._socket.recv() of the heartbeat thread
HeartbeatRecv(outcome) ==
    /\ heartbeat.pc = "recv"
    /\ heartbeat' =
           IF outcome = "reply"
           THEN [heartbeat EXCEPT
                    !.pc = "loop", !.socket.pending = FALSE,
                    !.sleep_duration = DEFAULT_HEARTBEAT_FREQUENCY]
           ELSE IF outcome = "timeout"
           THEN [heartbeat EXCEPT
                    !.pc = "loop", !.error = "ServiceClientTimeoutError",
                    !.socket =
                        socket_from_service_config(HEARTBEAT_TIMEOUT),
                    !.sleep_duration =
                        Backoff(heartbeat.try_num,
                                DEFAULT_HEARTBEAT_FREQUENCY),
                    !.try_num = @ + 1]
           ELSE [heartbeat EXCEPT !.pc = "exit",
                                  !.error = "ServiceClientError"]
    /\ UNCHANGED <<regVars, restVars, client, request>>

\* self._client.alive = False
HeartbeatDeclareDead ==
    /\ heartbeat.pc = "exit"
    /\ heartbeat' = [heartbeat EXCEPT !.pc = "stamp"]
    /\ client' = [client EXCEPT !.alive = FALSE]
    /\ UNCHANGED <<regVars, restVars, request>>

\* self._client.shutdown_time = current_timestamp() and killed_by_error
HeartbeatStamp ==
    /\ heartbeat.pc = "stamp"
    /\ heartbeat' = [heartbeat EXCEPT !.pc = "done"]
    /\ client' =
           [client EXCEPT
               !.shutdown_time = current_timestamp,
               !.killed_by_error =
                   IF heartbeat.error # None THEN heartbeat.error ELSE @]
    /\ UNCHANGED <<regVars, restVars, request>>

NextClient ==
    \/ \E function_name \in RequestedFunctions,
          timeout \in RequestTimeouts, max_tries \in 0..MaxTries,
          sleep_before_retry \in SleepsBeforeRetry,
          response_class \in BOOLEAN :
            Request(function_name, timeout, max_tries, sleep_before_retry,
                    response_class)
    \/ RequestLoop
    \/ \E send_ok \in BOOLEAN : RequestSend(send_ok)
    \/ \E outcome \in {"reply", "bad_reply", "timeout", "zmq_error"} :
            RequestRecv(outcome)
    \/ RequestShutdown
    \/ RequestJoin
    \/ RequestRaise
    \/ RequestReturn
    \/ HeartbeatLoop
    \/ \E outcome \in {"reply", "timeout", "zmq_error"} :
            HeartbeatRecv(outcome)
    \/ HeartbeatDeclareDead
    \/ HeartbeatStamp

SpecClient == InitClient /\ [][NextClient]_vars

\* the steps of the thread inside request() and those of the heartbeat
\* thread
RequestSteps ==
    \/ RequestLoop
    \/ \E send_ok \in BOOLEAN : RequestSend(send_ok)
    \/ \E outcome \in {"reply", "bad_reply", "timeout", "zmq_error"} :
            RequestRecv(outcome)
    \/ RequestShutdown
    \/ RequestJoin
    \/ RequestRaise

HeartbeatSteps ==
    \/ HeartbeatLoop
    \/ \E outcome \in {"reply", "timeout", "zmq_error"} :
            HeartbeatRecv(outcome)
    \/ HeartbeatDeclareDead
    \/ HeartbeatStamp

\* both threads are scheduled again and again, and a receive ends: with a
\* reply, with the receive timeout or with an error
SpecClientFair ==
    /\ InitClient
    /\ [][NextClient]_vars
    /\ WF_vars(RequestSteps)
    /\ WF_vars(HeartbeatSteps)

(***************************************************************************)
(* ServiceClient.shutdown called by the owner of the client, between its   *)
(* requests.                                                               *)
(***************************************************************************)
\* shutdown() up to the join of the heartbeat thread: the two early
\* returns, self.alive = False and the stop event
Shutdown(limit) ==
    /\ shutdown.pc = "idle"
    /\ shutdown.calls < limit
    /\ request.pc = "idle"
    /\ client.functions # {}
    /\ IF ~ client.heartbeat_thread \/ client.shutdown_time # 0
       THEN /\ shutdown' = [shutdown EXCEPT !.pc = "returned",
                                            !.raised = None,
                                            !.pre = client]
            /\ UNCHANGED client
       ELSE /\ shutdown' = [shutdown EXCEPT !.pc = "join",
                                            !.raised = None,
                                            !.pre = client]
            /\ client' = [client EXCEPT !.alive = FALSE,
                                        !.stop_event = TRUE]
    /\ UNCHANGED <<regVars, heartbeat, request, restButShutdown>>

\* the rest of shutdown() once the heartbeat thread has ended:
\* self._socket.close() raises AttributeError when self._socket is None
ShutdownJoin ==
    /\ shutdown.pc = "join"
    /\ heartbeat.pc = "done"
    /\ IF ~ client.socket.open
       THEN /\ shutdown' = [shutdown EXCEPT !.pc = "returned",
                                            !.raised = "AttributeError"]
            /\ UNCHANGED client
       ELSE /\ shutdown' = [shutdown EXCEPT !.pc = "returned"]
            /\ client' = [client EXCEPT !.socket = NoSocket,
                                        !.shutdown_time = current_timestamp]
    /\ UNCHANGED <<regVars, heartbeat, request, restButShutdown>>

\* the owner has the return or the exception of shutdown()
ShutdownReturn ==
    /\ shutdown.pc = "returned"
    /\ shutdown' = [shutdown EXCEPT !.pc = "idle", !.calls = @ + 1]
    /\ UNCHANGED <<regVars, cliVars, restButShutdown>>

NextShutdown ==
    \/ Shutdown(MaxShutdowns)
    \/ ShutdownJoin
    \/ ShutdownReturn
    \/ NextClient

SpecShutdown == InitClient /\ [][NextShutdown]_vars

(***************************************************************************)
(* Properties of the registry.                                             *)
(***************************************************************************)
\* C1: every instance that has registered and has not itself been
\* deregistered has its guid in the instance set of its name, its mapping
\* present and its name in the services set, also after a
\* deregister_service call for a guid that never registered.
C1_ServiceRecordInvariant ==
    \A g \in Guids :
        service[g].pc = "running" =>
            /\ g \in service_guids[service[g].name]
            /\ DOMAIN service_instance[service[g].name][g] # {}
            /\ service[g].name \in services

\* C2: an allocation hands out the smallest port of the host pool as it is
\* after the seeding, removes that port and no other, and hands out a port
\* that a deregistration returned when that port is the smallest free one.
C2_SmallestPortAllocated ==
    [][\A h \in Hosts :
          (nallocs' = nallocs + 1 /\ last_op'.host = h) =>
              LET p == last_op'.port
                  before == ZMembers(host_ports[h])
                  after == ZMembers(host_ports'[h])
              IN  /\ p \notin after
                  /\ \A q \in after : p < q
                  /\ before # {} => p \in before
                  /\ before \ {p} \subseteq after
                  /\ \A g \in Guids :
                        (service[g].pc = "init"
                            /\ service'[g].pc = "reserved")
                        => service'[g].port = p
                  /\ \A r \in released[h] :
                        (\A q \in before : r <= q) => p = r]_vars

C2_Witness ==
    /\ last_op.op = "allocate"
    /\ last_op.reused
    /\ nallocs > PORT_BATCH_SIZE

\* C3: every member of a host port pool is at least 9000, appears once and
\* has its own value as score.
C3_PortPoolInvariant ==
    \A h \in Hosts :
        \A e \in host_ports[h] :
            /\ e.member >= 9000
            /\ e.score = e.member
            /\ \A f \in host_ports[h] : f.member = e.member => f = e

C3_Witness ==
    /\ released["h1"] # {}
    /\ released["h1"] \subseteq ZMembers(host_ports["h1"])
    /\ \E e \in host_ports["h1"] : e.member >= 9000 + PORT_BATCH_SIZE

\* C4: from an empty pool and without deregistrations the k-th allocation
\* on a host returns 9000 + k - 1.
C4_SequentialPorts ==
    last_op.op = "allocate" => last_op.port = 9000 + nallocs - 1

C4_Witness ==
    /\ nallocs = 2 * PORT_BATCH_SIZE + 1
    /\ last_op.port = 9200

\* C5 as stated: registering an instance and then deregistering it leaves
\* every part of the directory, the host port pool included, as it was
\* before the registration.
C5_RoundTripRestoresDirectory ==
    last_op.op = "roundtrip" => Directory = last_op.pre

\* C5 amended: registering an instance and then deregistering it leaves the
\* services set, the instance sets and the instance mappings as they were
\* before the registration, and the host port pool as it was plus the port
\* of the instance.
C5_RoundTripRestoresRecords ==
    last_op.op = "roundtrip" =>
        /\ services = last_op.pre.services
        /\ service_guids = last_op.pre.service_guids
        /\ service_instance = last_op.pre.service_instance
        /\ host_ports =
               [last_op.pre.host_ports EXCEPT ![last_op.host] =
                   @ \cup {[member |-> last_op.port,
                            score |-> last_op.port]}]

C5_Witness ==
    /\ last_op.op = "roundtrip"
    /\ services # {}
    /\ last_op.port \notin ZMembers(last_op.pre.host_ports[last_op.host])

\* C6: a config that discover_service returns has the socket type of the
\* registered instance replaced by its pair, the connect method flipped,
\* functions, port, pid, start_time and alive decoded to the values that
\* were encoded at registration, and its other fields as stored.
SocketPairs ==
    {<<"REP", "REQ">>, <<"REQ", "REP">>, <<"PUB", "SUB">>, <<"SUB", "PUB">>,
     <<"PUSH", "PULL">>, <<"PULL", "PUSH">>}

C6_DiscoverDecodes ==
    [][(discover.pc = "configs" /\ discover'.pc = "done"
            /\ discover'.error = None) =>
          \A g \in DOMAIN discover'.configs :
              LET c == discover'.configs[g]
                  stored == service_instance[discover.name][g]
              IN  /\ service[g].pc = "running"
                  /\ DOMAIN c = DOMAIN stored
                  /\ c.socket_type.fmt = "raw"
                  /\ <<service[g].socket_type, c.socket_type.val>>
                         \in SocketPairs
                  /\ c.connect_method.fmt = "raw"
                  /\ c.connect_method.val \in VALID_CONN_METHOD
                  /\ c.connect_method.val # service[g].connect_method
                  /\ c.functions = Range(service[g].functions)
                  /\ c.port = service[g].port
                  /\ c.pid = service[g].pid
                  /\ c.start_time = service[g].start_time
                  /\ c.alive = TRUE
                  /\ \A f \in {"name", "env", "guid", "host"} :
                        c[f] = stored[f]
                  /\ c.guid = StrOfString(g)]_vars

C6_Witness ==
    /\ discover.pc = "done"
    /\ discover.error = None
    /\ discover.num = 2
    /\ \E g1, g2 \in DOMAIN discover.configs :
          /\ discover.configs[g1].socket_type = StrOfString("PULL")
          /\ discover.configs[g1].connect_method = StrOfString("bind")
          /\ discover.configs[g2].socket_type = StrOfString("REQ")
          /\ discover.configs[g2].connect_method = StrOfString("connect")

(***************************************************************************)
(* Properties of ServiceClient.request.                                    *)
(***************************************************************************)
Sends(log) == Cardinality({i \in DOMAIN log : log[i].ev = "send"})

IsWait(e) == e.ev = "wait"

Waits(log) ==
    LET w == SelectSeq(log, IsWait) IN [i \in DOMAIN w |-> w[i].ms]

ErrorEvents ==
    {"attribute_error", "send_error", "decode_error", "recv_error"}

\* every receive of the call ran into the receive timeout
OnlyTimeouts(log) ==
    \A i \in DOMAIN log :
        log[i].ev \in {"send", "timeout", "wait", "attribute_error"}

\* C7: a request for a function that the service config does not list fails
\* with ServiceFunctionNotAvailableError and sends no frame, whatever the
\* state of the client and whatever max_tries.
C7_UnknownFunctionFails ==
    (request.pc # "idle" /\ request.function_name \notin client.functions)
    => /\ Sends(request.log) = 0
       /\ request.pc = "done" =>
              request.raised = "ServiceFunctionNotAvailableError"

\* C8: when the service never replies and the client stays alive, a request
\* with max_tries = n >= 1 sends exactly n times and then raises
\* ServiceClientTimeoutError; it never sends more than max_tries times.
C8_ExactlyMaxTriesSends ==
    /\ Sends(request.log) <= request.max_tries
    /\ (/\ request.pc = "done"
        /\ request.max_tries >= 1
        /\ request.function_name \in client.functions
        /\ request.alive_read
        /\ OnlyTimeouts(request.log))
       => /\ Sends(request.log) = request.max_tries
          /\ request.raised = "ServiceClientTimeoutError"

\* C9: the wait between a timeout at try number try_num and the next send
\* is 2^try_num * sleep_before_retry, every send after the first follows
\* such a wait, and nothing is waited after the final timeout; with
\* max_tries = 3 and sleep_before_retry = 10 the waits are 10 then 20.
C9_BackoffWaits ==
    LET log == request.log
    IN  /\ \A i \in DOMAIN log :
              log[i].ev = "wait" =>
                  /\ i > 1
                  /\ log[i - 1].ev = "timeout"
                  /\ log[i].ms =
                         (2 ^ log[i - 1].try_num) * request.sleep_before_retry
        /\ \A i \in DOMAIN log :
              (log[i].ev = "send" /\ i > 1) => log[i - 1].ev = "wait"
        /\ \A i \in DOMAIN log :
              (log[i].ev = "timeout"
                  /\ log[i].try_num = request.max_tries - 1)
              => i = Len(log)
        /\ (/\ request.pc = "done"
            /\ request.max_tries = 3
            /\ request.sleep_before_retry = 10
            /\ request.try_num = 3)
           => Waits(log) = <<10, 20>>

C9_Witness ==
    /\ request.pc = "done"
    /\ request.max_tries = 4
    /\ request.sleep_before_retry = 10
    /\ request.raised = "ServiceClientTimeoutError"
    /\ Waits(request.log) = <<10, 20, 40>>

\* C10: after a transport error or any other exception that is not a
\* timeout, raised while sending, receiving or decoding, the call sends
\* nothing more and raises ServiceClientError, also when earlier attempts
\* of the call had timed out.
C10_ErrorsNotRetried ==
    LET log == request.log
    IN  /\ \A i \in DOMAIN log :
              log[i].ev \in ErrorEvents => i = Len(log)
        /\ (request.pc = "done"
               /\ \E i \in DOMAIN log : log[i].ev \in ErrorEvents)
           => request.raised = "ServiceClientError"

(***************************************************************************)
(* Properties of ServiceClient.shutdown.                                   *)
(***************************************************************************)
\* C11: when shutdown() returns, for a client with or without a heartbeat
\* thread, alive is false and shutdown_time is set, and a call after the
\* first one leaves the client as it found it.
C11_ShutdownStopsClient ==
    (shutdown.pc = "returned" /\ shutdown.raised = None) =>
        /\ ~ client.alive
        /\ client.shutdown_time # 0
        /\ shutdown.calls >= 1 => client = shutdown.pre

(***************************************************************************)
(* Properties of the dispatch loop and of run().                           *)
(***************************************************************************)
\* the run of an instance has finished an iteration of the loop
IterationEnded(g) ==
    \/ run[g].pc = "poll"
    \/ run[g].pc = "exit" /\ run[g].exit = "StopServiceError"

Last(seq) == seq[Len(seq)]

\* C12: a service that receives a stop message sends the reply STOPPED
\* before it leaves the loop and is still registered when it leaves it;
\* the deregistration that follows takes exactly its guid out of the
\* instance set of its name, so that a discovery finds one instance fewer,
\* and takes the name out of the services set when it was the last one;
\* no sample that discover_service draws afterwards holds the guid.
C12_StopDeregisters ==
    [][\A g \in PortGuids :
          LET name == service[g].name
          IN  /\ (run[g].pc = "send" /\ run'[g].pc = "exit") =>
                    /\ run'[g].exit = "StopServiceError"
                    /\ Last(run'[g].sent) = "STOPPED"
                    /\ service_instance'[name][g] = service_instance[name][g]
                    /\ service_instance[name][g] # EmptyHash
              /\ (run[g].pc = "exit" /\ run'[g].pc = "stopped") =>
                    /\ g \in service_guids[name]
                    /\ service_guids'[name] = service_guids[name] \ {g}
                    /\ service_instance'[name][g] = EmptyHash
                    /\ service_guids'[name] = {} => name \notin services'
              /\ (run[g].pc = "stopped" /\ discover.pc = "sample"
                      /\ discover'.pc = "configs") =>
                    g \notin discover'.sample_guids]_vars

\* C13: whatever ended the loop, run() has called deregister_service and
\* os.remove when it is over, and no error of the two leaves run().
C13_CleanupSwallowsErrors ==
    \A g \in Guids :
        run[g].pc = "stopped" =>
            /\ run[g].deregister_called
            /\ run[g].remove_called
            /\ run[g].raised = None

\* C14: at the end of every iteration num_messages is the number of
\* messages received and equals num_success + num_error.
C14_MessagesCounted ==
    \A g \in Guids :
        IterationEnded(g) =>
            /\ run[g].stats.num_messages = Len(run[g].received)
            /\ run[g].stats.num_messages =
                   run[g].stats.num_success + run[g].stats.num_error

C14_Witness ==
    /\ run["g1"].pc = "poll"
    /\ run["g1"].stats.num_success >= 1
    /\ run["g1"].stats.num_error >= 2

RECURSIVE Sum(_)
Sum(seq) == IF seq = <<>> THEN 0 ELSE seq[1] + Sum(Tail(seq))

\* C15: once a message has been processed, min <= avg <= max, avg is the
\* mean of all latency samples and last is the latest sample, also when a
\* sample is 0.
C15_LatencyBounds ==
    \A g \in Guids :
        (IterationEnded(g) /\ run[g].samples # <<>>) =>
            LET st == run[g].stats
                avg == st.avg_response_time
            IN  /\ st.min_response_time * avg.den <= avg.num
                /\ avg.num <= st.max_response_time * avg.den
                /\ avg.num * Len(run[g].samples)
                       = Sum(run[g].samples) * avg.den
                /\ st.last_response_time = Last(run[g].samples)

Count(seq, x) == Cardinality({i \in DOMAIN seq : seq[i] = x})

\* C16: a message whose handler raised is answered with "empty response"
\* and counted in num_error and not in num_success, and the loop polls
\* for the next message after the answer.
C16_HandlerErrorAnswered ==
    [][\A g \in Guids :
          /\ (run[g].pc = "handle" /\ run'[g].pc = "send"
                  /\ Last(run'[g].outcomes) = "raise") =>
                 /\ run'[g].response = "empty response"
                 /\ run'[g].stats.num_error = run[g].stats.num_error + 1
                 /\ run'[g].stats.num_success = run[g].stats.num_success
          /\ (run[g].pc = "send" /\ run'[g].pc # "send"
                  /\ Last(run[g].outcomes) = "raise") =>
                 /\ run'[g].pc = "poll"
                 /\ Last(run'[g].sent) = "empty response"
                 /\ Len(run'[g].sent) = Len(run[g].outcomes)
          /\ IterationEnded(g)' =>
                 run'[g].stats.num_error = Count(run'[g].outcomes, "raise")]_vars

C16_Witness ==
    /\ run["g1"].pc = "handle"
    /\ Len(run["g1"].sent) = 2
    /\ run["g1"].sent[1] = "empty response"
    /\ run["g1"].sent[2] = "PONG"
    /\ run["g1"].stats.num_error = 1

\* the name the loop enters in the deck for a received function name
Dispatched(g, function) ==
    IF function \in service[g].handlers THEN function ELSE "default"

\* C17: the function deck holds the names dispatched for the last
\* messages, at most 10 of them and the most recent one first, an unknown
\* function as "default".
C17_FunctionDeck ==
    \A g \in Guids :
        run[g].pc \in {"poll", "handle", "send"} =>
            LET deck == run[g].function_deque
                received == run[g].received
            IN  /\ Len(deck) <= 10
                /\ Len(deck) = Min(10, Len(received))
                /\ \A i \in DOMAIN deck :
                       deck[i] =
                           Dispatched(g, received[Len(received) - i + 1])

C17_Witness ==
    /\ Len(run["g1"].received) = 11
    /\ run["g1"].received[1] = "nope"
    /\ \A i \in 2..11 : run["g1"].received[i] = "heartbeat"
    /\ "default" \notin Range(run["g1"].function_deque)

(***************************************************************************)
(* Properties of ServiceMessageHandler.handle.                             *)
(***************************************************************************)
\* C18: handle() of a structured handler ends with a serialized response
\* and with nothing raised to the dispatch loop; the success flag of the
\* response is true exactly when decoding, validation and _handle all
\* completed, and after an exception it is false and error.type is the
\* class name of the exception, BadServiceRequestError when the decoding
\* failed.
C18_HandleAlwaysResponds ==
    handler.pc = "done" =>
        /\ handler.propagated = None
        /\ Parseable(handler.result)
        /\ LET header == ParseFromString(handler.result).header
           IN  /\ header.success <=>
                      (handler.exception = None /\ ~ handler.interrupted)
               /\ handler.exception # None =>
                      /\ ~ header.success
                      /\ header.error_type = handler.exception
               /\ ~ Parseable(handler.message) =>
                      header.error_type = "BadServiceRequestError"

C18_Witness ==
    /\ handler.pc = "done"
    /\ ~ Parseable(handler.message)
    /\ ParseFromString(handler.result).header.error_type
           = "BadServiceRequestError"

\* C19: the response to a request that decodes carries the request_guid
\* of the request, whether validation and _handle return or raise.
C19_RequestGuidPreserved ==
    (handler.pc = "done" /\ Parseable(handler.message)) =>
        /\ Parseable(handler.result)
        /\ ParseFromString(handler.result).header.request_guid
               = ParseFromString(handler.message).header.request_guid

C19_Witness ==
    /\ handler.pc = "done"
    /\ Parseable(handler.message)
    /\ handler.exception = "NotImplementedError"
    /\ ParseFromString(handler.result).header.request_guid = "r2"

(***************************************************************************)
(* Properties of the ServiceMethodCaller and its pool.                     *)
(***************************************************************************)
\* C20: under every interleaving of concurrent calls no client is held by
\* two calls, no client is twice in the queue of the pool, and no client
\* is in the queue while a call holds it.
Holds(t) == calls[t].pc \in {"good", "request", "release"}

C20_ClientsHeldOnce ==
    /\ \A t, u \in Threads :
          (t # u /\ Holds(t) /\ Holds(u)) =>
              calls[t].resource # calls[u].resource
    /\ \A i, j \in DOMAIN pool.resources :
          i # j => pool.resources[i] # pool.resources[j]
    /\ \A t \in Threads :
          Holds(t) => calls[t].resource \notin Range(pool.resources)

C20_Witness ==
    /\ calls["t1"].pc = "request"
    /\ calls["t2"].pc = "request"
    /\ calls["t1"].resource # calls["t2"].resource
    /\ calls["t3"].raised = "ClientResourceNotAvailableError"
    /\ pool.resources = <<>>

\* C21: once a call of the ServiceMethodCaller is past its request, the
\* exception of the client is the one the caller gets, and once the call
\* has released its client a live client is back in the pool (or already
\* with a later call); when no call is in progress the pool has as many
\* clients as it was built with.
C21_CallRestoresPool ==
    /\ \A t \in Threads :
          (calls[t].pc \in {"release", "del", "done"} /\ calls[t].client_error # None) =>
              calls[t].raised = calls[t].client_error
    /\ \A t \in Threads :
          (calls[t].pc \in {"del", "done"} /\ calls[t].resource # None /\ good_to_use(calls[t].resource)) =>
              \/ calls[t].resource \in Range(pool.resources)
              \/ \E u \in Threads \ {t} : Holds(u) /\ calls[u].resource = calls[t].resource
    /\ (\A t \in Threads : calls[t].pc \in {"idle", "done"}) =>
           Len(pool.resources) = Cardinality({r \in Resources : pool.alive[r]})

C21_Witness ==
    /\ calls["t1"].pc = "done"
    /\ calls["t1"].client_error = "ServiceClientTimeoutError"
    /\ calls["t1"].raised = "ServiceClientTimeoutError"
    /\ calls["t2"].pc = "done"
    /\ calls["t2"].sent
    /\ calls["t2"].raised = None
    /\ calls["t3"].pc = "idle"
    /\ Len(pool.resources) = 2

\* C22: over a pool of one client, a call that fails with
\* ClientResourceNotAvailableError has sent nothing and has failed only
\* after acquire waited out its timeout in Queue.get.
C22_SecondCallWaits ==
    \A t \in Threads :
        (Cardinality({r \in Resources : pool.alive[r]}) = 1 /\ calls[t].raised = "ClientResourceNotAvailableError") =>
            ~ calls[t].sent /\ calls[t].waited

\* C23: a Resource wrapper released a second time (release(), __exit__ or
\* __del__ in any order) raises nothing and its resource is not put into
\* the pool a second time.
C23_SecondReleaseNoOp ==
    \A t \in Threads :
        calls[t].releases >= 2 =>
            /\ calls[t].release_raised = None
            /\ Cardinality({i \in DOMAIN pool.resources : pool.resources[i] = calls[t].resource}) <= 1

(***************************************************************************)
(* Properties of the heartbeat thread and of shutdown.                     *)
(***************************************************************************)
\* C24: the heartbeat thread leaves its loop on timeouts only after more
\* than one: while nobody has set the stop event, a thread that is out of
\* the loop with a timeout as its error has had at least two heartbeats
\* time out, the first of them followed by a new socket, the backoff and
\* another heartbeat.
C24_DeadOnlyAfterRepeatedFailure ==
    (heartbeat.pc \in {"exit", "stamp", "done"} /\ heartbeat.error = "ServiceClientTimeoutError" /\ ~ client.stop_event) =>
        heartbeat.try_num >= 2

C27_DiscoverFailsCleanly ==
    discover.pc = "done" =>
        /\ discover.error \in {None, "ServiceNotAvailableError"}
        /\ discover.error = None =>
               \A g \in DOMAIN discover.configs :
                   MANDATORY_FIELDS \subseteq DOMAIN discover.configs[g]

\* C28: whatever the order of the register_service and deregister_service
\* calls of the instances of a service, the name of the service is in the
\* services set, and its instance set exists, exactly when one of its
\* instances is registered.
C28_LastInstanceCleanup ==
    \A name \in Names :
        LET registered == {g \in Guids : service[g].pc = "running" /\ service[g].name = name}
        IN  /\ name \in services <=> registered # {}
            /\ service_guids[name] # {} <=> registered # {}

\* C26: whatever the order of the next_available_port and
\* deregister_service calls on a host, an allocation never hands out a
\* port that was handed out before and not returned by a deregistration
\* since, two instances that have their port never have the same one, and
\* the port of such an instance is not in the free pool.
HoldsPort(g) == service[g].pc \in {"reserved", "bound", "handlers", "running", "failed"}

C29_FailedClientLeavesPool ==
    \A t \in Threads :
        (calls[t].pc \in {"del", "done"} /\ calls[t].client_error \in {"ServiceClientError", "ServiceClientTimeoutError"}) =>
            /\ ~ good_to_use(calls[t].resource)
            /\ calls[t].resource \notin Range(pool.resources)
            /\ \A u \in Threads \ {t} : Holds(u) => calls[u].resource # calls[t].resource

\* C30: when shutdown() of a client with a heartbeat thread has returned,
\* the request socket is closed and the heartbeat thread has ended, also
\* when the heartbeat thread had marked the client dead before the call.
C30_ShutdownClosesSocket ==
    (shutdown.pc = "returned" /\ shutdown.raised = None /\ client.heartbeat_thread) =>
        /\ ~ client.socket.open
        /\ heartbeat.pc = "done"

(***************************************************************************)
(* Properties of the sockets of a client.                                  *)
(***************************************************************************)
\* C31: every send of request() and of the heartbeat thread is issued on
\* an open socket whose previous send was answered, and a receive that
\* times out closes its socket, so that the send after a timeout is issued
\* on a socket opened since.
C31_SendsAlternate ==
    [][/\ (request.pc = "send" /\ request'.pc # "send") =>
              client.socket.open /\ ~ client.socket.pending
       /\ (heartbeat.pc = "loop" /\ heartbeat'.pc = "recv") =>
              heartbeat.socket.open /\ ~ heartbeat.socket.pending
       /\ (request.pc = "recv" /\ request'.pc = "loop") =>
              ~ client'.socket.open]_vars

(***************************************************************************)
(* Properties of the bootstrap and of the dispatch loop.                   *)
(***************************************************************************)
\* C32: an instance whose guid is in an instance set, or whose mapping
\* exists, has reserved its port, bound its socket and installed its
\* handlers, and registered the port it reserved: the registration is the
\* last step of the bootstrap.
C32_RegisteredLast ==
    \A g \in Guids, name \in Names :
        (g \in service_guids[name] \/ DOMAIN service_instance[name][g] # {}) =>
            /\ service[g].pc = "running"
            /\ service[g].name = name
            /\ service[g].port \in allocated[service[g].host]
            /\ service[g].socket_type \in VALID_SCK_TYPES
            /\ service[g].handlers = Range(service[g].functions)
            /\ service[g].handlers # {}
            /\ DOMAIN service_instance[name][g] # {} =>
                   service_instance[name][g].port = StrOfInt(service[g].port)

C32_Witness ==
    /\ service["g1"].pc = "running"
    /\ "g1" \in service_guids[service["g1"].name]
    /\ service["g2"].pc = "handlers"
    /\ service["g2"].name = service["g1"].name
    /\ "g2" \notin service_guids[service["g2"].name]
    /\ service["g3"].pc = "reserved"

\* C33: the dispatch loop is left only after a stop message, by an
\* interrupt or by an error of poll(): nothing in a received message that
\* is not a stop message ends it.
C33_LoopKeepsServing ==
    \A g \in Guids :
        run[g].pc \in {"exit", "stopped"} =>
            run[g].exit \in {"StopServiceError", "KeyboardInterrupt", "Exception"}

\* C34: the stats of a description reply have none of the keys
\* cpu_percent, vms, rss and memory_percent, whatever the service handled
\* before, healthcheck requests included.
C34_DescriptionWithoutSamples ==
    \A g \in Guids :
        \A i \in DOMAIN run[g].described :
            run[g].described[i] \cap OS_SAMPLE_FIELDS = {}

\* C35: a structured handler whose initialize() left request_class or
\* response_class unset is never built: its constructor raises
\* BadServiceMessageHandlerError and the bootstrap fails.
C35_BothClassesRequired ==
    \A g \in Guids :
        (service[g].pc \in {"handlers", "running"} /\ service[g].is_proto) =>
            service[g].request_class /\ service[g].response_class

\* C36: an acquire() without timeout never ends with Queue.Empty: on an
\* empty pool it waits until another thread releases a resource.
C36_AcquireWaitsForRelease ==
    \A t \in Threads :
        (calls[t].direct /\ ~ calls[t].timeout) =>
            calls[t].raised # "Queue.Empty"

\* C37: acquire returns only a resource that was good to use when it
\* was probed, a resource found dead is in the queue and in no wrapper
\* that can release it ever after, and an acquire that ends with Queue.Empty leaves the pool
\* empty.
C37_DeadResourcesDropped ==
    [][/\ \A t \in Threads :
            (calls[t].pc = "good" /\ calls'[t].pc = "request") =>
                good_to_use(calls[t].resource)
       /\ \A r \in pool'.dropped :
            /\ r \notin Range(pool'.resources)
            /\ \A t \in Threads :
                 calls'[t].wrapper_pool => calls'[t].resource # r
       /\ \A t \in Threads :
            (calls[t].pc \in {"empty", "get"} /\ calls'[t].pc = "done") =>
                (calls'[t].raised = "Queue.Empty" /\ pool'.resources = <<>>)
      ]_vars

\* an acquire dropped a dead resource and returned the next one, another
\* found nothing but dead resources and ended with Queue.Empty
C37_Witness ==
    /\ \E t \in Threads :
        /\ calls[t].pc \in {"request", "handle", "done"}
        /\ calls[t].skipped > 0
        /\ calls[t].resource # None
        /\ calls[t].raised = None
    /\ \E t \in Threads :
        /\ calls[t].pc = "done"
        /\ calls[t].skipped > 0
        /\ calls[t].raised = "Queue.Empty"
        /\ pool.resources = <<>>

\* C38: a port that next_available_port took out of the pool of a host
\* and that is not back in that pool is the port of an instance that has
\* not ended: no port is out of the pool without an instance holding it.
C38_PortsConserved ==
    \A h \in Hosts :
        \A p \in allocated[h] :
            \E g \in Guids :
                /\ HoldsPort(g)
                /\ service[g].host = h
                /\ service[g].port = p

\* C39: a request() entered on a client whose alive flag is false sends
\* no frame, attempts no send, and ends by raising ServiceClientError.
C39_DeadClientRaises ==
    (request.pc # "idle" /\ ~ request.alive_on_entry) =>
        /\ request.log = <<>>
        /\ request.result = None
        /\ request.pc = "done" => request.raised = "ServiceClientError"

\* a request on a dead client has raised
C39_Witness ==
    /\ request.pc = "done"
    /\ ~ request.alive_on_entry
    /\ request.raised = "ServiceClientError"
    /\ request.function_name \in client.functions

\* C40: a request call that was entered ends: it returns a reply or
\* raises, it has sent at most max_tries times, and when it went through
\* the join of shutdown() the stop event is set and the heartbeat thread
\* has ended.
C40_RequestTerminates ==
    /\ [](Sends(request.log) <= request.max_tries)
    /\ [](request.pc = "done" =>
             (request.result # None) # (request.raised # None))
    /\ []((request.pc = "raise" /\ client.heartbeat_thread) =>
             (heartbeat.pc = "done" /\ client.shutdown_time # 0))
    /\ (request.pc # "idle") ~> (request.pc = "done")

\* a call that failed at its last try, after max_tries sends, has joined
\* the heartbeat thread it stopped and has raised
C40_Witness ==
    /\ request.pc = "done"
    /\ request.raised = "ServiceClientError"
    /\ request.max_tries > 1
    /\ Sends(request.log) = request.max_tries
    /\ client.heartbeat_thread
    /\ client.stop_event
    /\ heartbeat.pc = "done"

====
